---------------------------- MODULE Spec2Model ----------------------------
(***************************************************************************)
(* Model of plugin/common/kernels/detectionForward.cu: detectionInference, *)
(* the SSD detection-output pipeline                                       *)
(*   Decode -> (Permute-boxes) -> Permute-scores -> Sort-per-class -> NMS  *)
(*          -> Sort-per-image -> Gather                                    *)
(* and the workspace plan it computes by pointer arithmetic.  The stage    *)
(* kernels, the detectionForward*Size functions, nextWorkspacePtr and the  *)
(* ASSERT_FAILURE macro are declared in common/kernels/kernel.h and        *)
(* common/bboxUtils.h; their bodies are modelled from the design document. *)
(***************************************************************************)
EXTENDS Integers, Sequences, FiniteSets, TLC

VARIABLES
    arg,        \* arg[i]: the parameters of invocation i (lines 24-50)
    pc,         \* pc[i]: the stage invocation i calls next, or "done"
    status,     \* status[i]: the status returned by invocation i, "none" before
    invoked,    \* invoked[i]: the stages called so far with the status each returned
    launched,   \* launched[i]: the stages whose kernel was put on the stream
    mem,        \* device memory: pointer -> contents of the buffer that starts there
    plan,       \* the workspace plan of execution and of the size query
    queue,      \* queue[s]: the kernels issued on stream s and not yet retired
    hostpc      \* the stage the host issues next in the stream-level view

invVars    == <<arg, pc, status, invoked, launched, mem>>
streamVars == <<queue, hostpc>>
vars       == <<arg, pc, status, invoked, launched, mem, plan, queue, hostpc>>

---------------------------------------------------------------------------
(* Status codes and data types.                                            *)

STATUS_SUCCESS   == "STATUS_SUCCESS"
STATUS_FAILURE   == "STATUS_FAILURE"
STATUS_BAD_PARAM == "STATUS_BAD_PARAM"

kFLOAT == "kFLOAT"
kHALF  == "kHALF"
kINT8  == "kINT8"

DataTypes      == {kFLOAT, kHALF, kINT8}
SupportedTypes == {kFLOAT, kHALF}

Min(a, b) == IF a < b THEN a ELSE b
Max(a, b) == IF a > b THEN a ELSE b

---------------------------------------------------------------------------
(* Workspace sizing.                                                       *)

CUDA_MEM_ALIGN == 256

\* sizeof(float) / sizeof(__half); -1 stands for the (size_t)-1 error value.
dataTypeSize(dt) ==
    IF dt = kFLOAT THEN 4 ELSE IF dt = kHALF THEN 2 ELSE -1

detectionForwardBBoxDataSize(N, C1, DT_BBOX) ==
    IF DT_BBOX \in SupportedTypes THEN N * C1 * dataTypeSize(DT_BBOX) ELSE -1

detectionForwardBBoxPermuteSize(shareLocation, N, C1, DT_BBOX) ==
    IF DT_BBOX \in SupportedTypes
    THEN (IF shareLocation THEN 0 ELSE N * C1 * dataTypeSize(DT_BBOX))
    ELSE -1

\* One 4-byte word (float score or int index) per (image, class, prior).
detectionForwardPreNMSSize(N, C2) == N * C2 * 4

\* One 4-byte word per (image, class, rank below topK).
detectionForwardPostNMSSize(N, numClasses, topK) == N * numClasses * topK * 4

\* The next aligned address after a sub-buffer of previousWorkspaceSize bytes.
nextWorkspacePtr(ptr, previousWorkspaceSize) ==
    LET addr == ptr + previousWorkspaceSize
    IN  IF (addr % CUDA_MEM_ALIGN) # 0
        THEN addr + (CUDA_MEM_ALIGN - (addr % CUDA_MEM_ALIGN))
        ELSE addr

---------------------------------------------------------------------------
(* detectionInference: the locals computed from the parameters `a`.        *)

locCount(a) == a.N * a.C1

clipBBox == FALSE

numLocClasses(a) == IF a.shareLocation THEN 1 ELSE a.numClasses

bboxDataSize(a) == detectionForwardBBoxDataSize(a.N, a.C1, a.DT_BBOX)

\* The decoded boxes written over the priors they are decoded from.
bboxDataRaw_OverPriors(a) == a.priorData

bboxDataRaw(a) == a.workspace

bboxPermuteSize(a) ==
    detectionForwardBBoxPermuteSize(a.shareLocation, a.N, a.C1, a.DT_BBOX)

bboxPermute(a) == nextWorkspacePtr(bboxDataRaw(a), bboxDataSize(a))

\* The decoded boxes used as they are, whatever shareLocation.
bboxData_AlwaysRaw(a) == bboxDataRaw(a)

bboxData(a) == IF ~a.shareLocation THEN bboxPermute(a) ELSE bboxDataRaw(a)

numScores(a) == a.N * a.C2

scoresSize(a) ==
    LET full == detectionForwardPreNMSSize(a.N, a.C2)
    IN  IF a.DT_SCORE = kHALF THEN full \div 2 ELSE full

scores(a) == nextWorkspacePtr(bboxPermute(a), bboxPermuteSize(a))

indicesSize(a) == detectionForwardPreNMSSize(a.N, a.C2)

indices_WrongBase(a) == nextWorkspacePtr(bboxPermute(a), scoresSize(a))

indices(a) == nextWorkspacePtr(scores(a), scoresSize(a))

postNMSScoresSize(a) ==
    LET full == detectionForwardPostNMSSize(a.N, a.numClasses, a.topK)
    IN  IF a.DT_SCORE = kHALF THEN full \div 2 ELSE full

postNMSIndicesSize(a) == detectionForwardPostNMSSize(a.N, a.numClasses, a.topK)

postNMSScores(a) == nextWorkspacePtr(indices(a), indicesSize(a))

\* A scratch buffer at one fixed address, the same for every invocation.
postNMSIndices_Static(a) == 0

postNMSIndices(a) == nextWorkspacePtr(postNMSScores(a), postNMSScoresSize(a))

sortingWorkspace(a) == nextWorkspacePtr(postNMSIndices(a), postNMSIndicesSize(a))

\* No upper limit on scoreBits.
scoreShift_AnyBits(a) ==
    IF a.DT_SCORE = kHALF /\ a.scoreBits > 0 THEN 1 ELSE 0

scoreShift(a) ==
    IF a.DT_SCORE = kHALF /\ a.scoreBits > 0 /\ a.scoreBits <= 10 THEN 1 ELSE 0

\* The seven sub-buffers in the order the pointers are derived; the sorting
\* scratch is last and its size is not computed by detectionInference.
ExecPlan(a) ==
    << [name |-> "bboxDataRaw",      ptr |-> bboxDataRaw(a),      size |-> bboxDataSize(a)],
       [name |-> "bboxPermute",      ptr |-> bboxPermute(a),      size |-> bboxPermuteSize(a)],
       [name |-> "scores",           ptr |-> scores(a),           size |-> scoresSize(a)],
       [name |-> "indices",          ptr |-> indices(a),          size |-> indicesSize(a)],
       [name |-> "postNMSScores",    ptr |-> postNMSScores(a),    size |-> postNMSScoresSize(a)],
       [name |-> "postNMSIndices",   ptr |-> postNMSIndices(a),   size |-> postNMSIndicesSize(a)],
       [name |-> "sortingWorkspace", ptr |-> sortingWorkspace(a), size |-> 0] >>

\* The workspace-size query: the sizing functions applied to the same shape
\* parameters, laid out from the same base with the same alignment.
QuerySizes(a) ==
    << detectionForwardBBoxDataSize(a.N, a.C1, a.DT_BBOX),
       detectionForwardBBoxPermuteSize(a.shareLocation, a.N, a.C1, a.DT_BBOX),
       detectionForwardPreNMSSize(a.N, a.C2),
       detectionForwardPreNMSSize(a.N, a.C2),
       detectionForwardPostNMSSize(a.N, a.numClasses, a.topK),
       detectionForwardPostNMSSize(a.N, a.numClasses, a.topK) >>

RECURSIVE QueryPtr(_, _)
QueryPtr(a, k) ==
    IF k = 1 THEN a.workspace
    ELSE nextWorkspacePtr(QueryPtr(a, k - 1), QuerySizes(a)[k - 1])

QueryPlan(a) ==
    [k \in 1..6 |-> [name |-> ExecPlan(a)[k].name,
                     ptr  |-> QueryPtr(a, k),
                     size |-> QuerySizes(a)[k]]]

---------------------------------------------------------------------------
(* Device buffers.  A buffer is a sequence of items: a box <<x1,y1,x2,y2>>, *)
(* a score, an index, or a detection record.  Offsets below are 0-based as *)
(* in the kernels; At adds the 1 of TLA+ sequences.                        *)

NoBox == <<0, 0, 0, 0>>

\* A word outside the buffer reads as -1, a box outside it as NoBox.
At(buf, k) == IF (k + 1) \in DOMAIN buf THEN buf[k + 1] ELSE -1

BoxAt(buf, k) == IF (k + 1) \in DOMAIN buf THEN buf[k + 1] ELSE NoBox

Read(m, p) == IF p \in DOMAIN m THEN m[p] ELSE << >>

\* Writing n items at the start of a buffer keeps what lay behind them.
Overwrite(old, new) ==
    [k \in 1..Max(Len(old), Len(new)) |-> IF k <= Len(new) THEN new[k] ELSE old[k]]

\* A kernel's output `buf` is written at the start of the buffer at p.
Put(m, p, buf) ==
    [q \in (DOMAIN m) \cup {p} |-> IF q = p THEN Overwrite(Read(m, p), buf) ELSE m[q]]

---------------------------------------------------------------------------
(* The stages, as functions from input buffers to output buffers.          *)

\* BBoxDecoder, CodeTypeSSD::CORNER with the variance encoded in the target:
\* box = prior + offset, one box per (image, prior, location class); the
\* prior set is shared by all images.
decodeBBoxes(count, numPredsPerClass, numLocCls, locData, priorData) ==
    [k \in 1..(count \div 4) |->
        LET p  == ((k - 1) \div numLocCls) % numPredsPerClass
            pr == BoxAt(priorData, p)
            lc == locData[k]
        IN  <<pr[1] + lc[1], pr[2] + lc[2], pr[3] + lc[3], pr[4] + lc[4]>>]

\* LayoutPermuter: [batch, priors, classes, dim] -> [batch, classes, priors, dim];
\* an item of the model is one group of `dim` words.
permuteData(count, numClasses, numPreds, dim, data) ==
    [k \in 1..(count \div dim) |->
        LET o == k - 1
            n == o \div (numClasses * numPreds)
            c == (o \div numPreds) % numClasses
            p == o % numPreds
        IN  At(data, (n * numPreds + p) * numClasses + c)]

\* 16-bit scores.  A score is an integer count of units of 2^-11, so a score
\* in [1/2, 1) is exact; HalfOne is 1.0.  A 16-bit float has 10 fraction
\* bits: in [1, 2) it holds the multiples of 2 units, in [2, 4) of 4 units.
\* RoundToHalf rounds to nearest, ties to even.
HalfOne == 2048

RoundToHalf(v) ==
    LET g  == IF v < HalfOne THEN 1 ELSE IF v < 2 * HalfOne THEN 2 ELSE 4
        lo == (v \div g) * g
    IN  IF v = lo THEN v
        ELSE IF 2 * (v - lo) < g THEN lo
        ELSE IF 2 * (v - lo) > g THEN lo + g
        ELSE IF (lo \div g) % 2 = 0 THEN lo ELSE lo + g

\* The additive shift (0 or 1.0) applied to a stored score and taken off again;
\* a shifted score is stored in 16 bits.
ScoreAdd(s, shift) == IF shift = 0 THEN s ELSE RoundToHalf(s + shift * HalfOne)
ScoreSub(x, shift) == IF shift = 0 THEN x ELSE RoundToHalf(x - shift * HalfOne)

\* PerClassScoreSorter.  Per (image, class) segment of numPreds scores: the
\* priors whose score exceeds the threshold, by descending score, equal scores
\* by ascending index; the rest of the segment is padding (score 0, index -1).
\* A stored score carries the additive shift, and the scores are compared as
\* stored.
sortedSegment(n, c, numClasses, numPreds, backgroundLabelId, confidenceThreshold, conf, shift) ==
    LET base      == (n * numClasses + c) * numPreds
        Survives(k) == c # backgroundLabelId /\ At(conf, base + k) > confidenceThreshold
        Key(k)    == ScoreAdd(At(conf, base + k), shift)
        Before(j, k) == \/ Key(j) > Key(k)
                        \/ Key(j) = Key(k) /\ j < k
        S         == {k \in 0..(numPreds - 1) : Survives(k)}
        Rank(k)   == Cardinality({j \in S : Before(j, k)})
    IN  [r \in 1..numPreds |->
            IF r <= Cardinality(S)
            THEN LET k == CHOOSE k \in S : Rank(k) = r - 1
                 IN  [score |-> Key(k), index |-> base + k]
            ELSE [score |-> 0, index |-> -1]]

sortScoresPerClass(N, numClasses, numPreds, backgroundLabelId, confidenceThreshold, conf, shift) ==
    LET seg == [sg \in 0..(N * numClasses - 1) |->
                   sortedSegment(sg \div numClasses, sg % numClasses, numClasses, numPreds,
                                 backgroundLabelId, confidenceThreshold, conf, shift)]
    IN  [g \in 1..(N * numClasses * numPreds) |->
            seg[(g - 1) \div numPreds][((g - 1) % numPreds) + 1]]

\* Intersection over union as a comparison of integers: IoU >= num/den.
BoxWidth(b, isNormalized)  == IF isNormalized THEN b[3] - b[1] ELSE b[3] - b[1] + 1
BoxHeight(b, isNormalized) == IF isNormalized THEN b[4] - b[2] ELSE b[4] - b[2] + 1
BoxArea(b, isNormalized) ==
    IF b[3] < b[1] \/ b[4] < b[2] THEN 0
    ELSE BoxWidth(b, isNormalized) * BoxHeight(b, isNormalized)

Intersect(a, b) ==
    IF b[1] > a[3] \/ b[3] < a[1] \/ b[2] > a[4] \/ b[4] < a[2] THEN NoBox
    ELSE <<Max(a[1], b[1]), Max(a[2], b[2]), Min(a[3], b[3]), Min(a[4], b[4])>>

IoUAtLeast(a, b, th, isNormalized) ==
    LET inter == BoxArea(Intersect(a, b), isNormalized)
        union == BoxArea(a, isNormalized) + BoxArea(b, isNormalized) - inter
    IN  union > 0 /\ inter * th[2] >= th[1] * union

\* The box a sorted index names: per-class boxes lie in the [N, C, P] layout of
\* the scores; shared boxes are one row of P per image.
BoxOfIndex(bbox, idx, shareLocation, numClasses, numPreds) ==
    IF shareLocation
    THEN BoxAt(bbox, (idx \div (numClasses * numPreds)) * numPreds + (idx % numPreds))
    ELSE BoxAt(bbox, idx)

\* NMSEngine: the greedy pass over the ranks of one (image, class) segment.
\* kept is the sequence of ranks retained so far.
\* A candidate suppressed by any higher-ranked candidate, retained or not.
RECURSIVE nmsGreedy_AllHigher(_, _, _, _, _, _, _, _, _, _)
nmsGreedy_AllHigher(r, kept, base, numClasses, numPreds, topK, th, share, norm, in) ==
    IF r >= numPreds \/ Len(kept) >= topK THEN kept
    ELSE LET idx == At(in.indices, base + r)
             box == BoxOfIndex(in.bbox, idx, share, numClasses, numPreds)
             Suppressed ==
                 \E j \in 0..(r - 1) :
                     IoUAtLeast(BoxOfIndex(in.bbox, At(in.indices, base + j),
                                           share, numClasses, numPreds),
                                box, th, norm)
         IN  IF idx = -1 THEN kept
             ELSE nmsGreedy_AllHigher(r + 1, IF Suppressed THEN kept ELSE Append(kept, r),
                                      base, numClasses, numPreds, topK, th, share, norm, in)

\* No stop at topK: an unsuppressed candidate that comes after topK are
\* retained takes the place of the last one retained.
RECURSIVE nmsGreedy_KeepsLowest(_, _, _, _, _, _, _, _, _, _)
nmsGreedy_KeepsLowest(r, kept, base, numClasses, numPreds, topK, th, share, norm, in) ==
    IF r >= numPreds THEN kept
    ELSE LET idx == At(in.indices, base + r)
             box == BoxOfIndex(in.bbox, idx, share, numClasses, numPreds)
             Suppressed ==
                 \E t \in 1..Len(kept) :
                     IoUAtLeast(BoxOfIndex(in.bbox, At(in.indices, base + kept[t]),
                                           share, numClasses, numPreds),
                                box, th, norm)
         IN  IF idx = -1 THEN kept
             ELSE nmsGreedy_KeepsLowest(r + 1,
                      IF Suppressed THEN kept
                      ELSE IF Len(kept) < topK THEN Append(kept, r)
                      ELSE Append(SubSeq(kept, 1, topK - 1), r),
                      base, numClasses, numPreds, topK, th, share, norm, in)

RECURSIVE nmsGreedy(_, _, _, _, _, _, _, _, _, _)
nmsGreedy(r, kept, base, numClasses, numPreds, topK, th, share, norm, in) ==
    IF r >= numPreds \/ Len(kept) >= topK THEN kept
    ELSE LET idx == At(in.indices, base + r)
             box == BoxOfIndex(in.bbox, idx, share, numClasses, numPreds)
             Suppressed ==
                 \E t \in 1..Len(kept) :
                     IoUAtLeast(BoxOfIndex(in.bbox, At(in.indices, base + kept[t]),
                                           share, numClasses, numPreds),
                                box, th, norm)
         IN  IF idx = -1 THEN kept
             ELSE nmsGreedy(r + 1, IF Suppressed THEN kept ELSE Append(kept, r),
                            base, numClasses, numPreds, topK, th, share, norm, in)

\* Per (image, class): topK output slots, the retained candidates in rank order,
\* then padding.
allClassNMS(N, numClasses, numPreds, topK, th, share, norm, bbox, inScores, inIndices) ==
    LET kept == [sg \in 0..(N * numClasses - 1) |->
                    nmsGreedy(0, << >>, sg * numPreds, numClasses, numPreds, topK, th,
                              share, norm, [bbox |-> bbox, indices |-> inIndices])]
    IN  [g \in 1..(N * numClasses * topK) |->
            LET sg == (g - 1) \div topK
                t  == ((g - 1) % topK) + 1
            IN  IF t <= Len(kept[sg])
                THEN [score |-> At(inScores, sg * numPreds + kept[sg][t]),
                      index |-> At(inIndices, sg * numPreds + kept[sg][t])]
                ELSE [score |-> 0, index |-> -1]]

\* CrossImageSorter: per image, the `num` post-NMS entries by descending score,
\* equal scores in the order of their positions.
sortScoresPerImage(N, num, inScores, inIndices) ==
    LET Before(j, k) == \/ At(inScores, j) > At(inScores, k)
                        \/ At(inScores, j) = At(inScores, k) /\ j < k
        rank == [e \in 0..(N * num - 1) |->
                    LET base == (e \div num) * num
                    IN  Cardinality({j \in base..(base + num - 1) : Before(j, e)})]
    IN  [g \in 1..(N * num) |->
            LET base == ((g - 1) \div num) * num
                e    == CHOOSE e \in base..(base + num - 1) : rank[e] = (g - 1) % num
            IN  [score |-> At(inScores, e), index |-> At(inIndices, e)]]

\* TopKGatherer: per image the first keepTopK entries of the cross-class
\* ranking; an entry that is padding, or lies beyond the image's ranking, is
\* written as the sentinel (label -1).
Sentinel(n) == [imgId |-> n, label |-> -1, score |-> 0, box |-> NoBox]

gatherSlot(n, d, share, numPreds, numClasses, topK, idx, sc, bbox, shift) ==
    LET e == n * numClasses * topK + d
        i == At(idx, e)
    IN  IF d >= numClasses * topK \/ i = -1 THEN Sentinel(n)
        ELSE [imgId |-> n,
              label |-> (i % (numClasses * numPreds)) \div numPreds,
              score |-> ScoreSub(At(sc, e), shift),
              box   |-> BoxOfIndex(bbox, i, share, numClasses, numPreds)]

gatherTopDetections(share, N, numPreds, numClasses, topK, keepTopK, idx, sc, bbox, shift) ==
    LET det == [g \in 1..(N * keepTopK) |->
                   gatherSlot((g - 1) \div keepTopK, (g - 1) % keepTopK, share, numPreds,
                              numClasses, topK, idx, sc, bbox, shift)]
    IN  [topDetections |-> det,
         keepCount |-> [n \in 1..N |->
             Cardinality({d \in 1..keepTopK : det[(n - 1) * keepTopK + d].label # -1})]]

---------------------------------------------------------------------------
(* detectionInference: the arguments handed to each stage.                 *)

decodeBBoxesArgs(a) ==
    [stream |-> a.stream, count |-> locCount(a),
     numPredsPerClass |-> a.numPredsPerClass, shareLocation |-> a.shareLocation,
     numLocClasses |-> numLocClasses(a), clipBBox |-> clipBBox,
     DT_BBOX |-> a.DT_BBOX, locData |-> a.locData, priorData |-> a.priorData,
     bboxData |-> bboxDataRaw(a)]

permuteBoxesArgs_ScoreType(a) ==
    [stream |-> a.stream, count |-> locCount(a), numClasses |-> numLocClasses(a),
     numPreds |-> a.numPredsPerClass, dim |-> 4, DT |-> a.DT_SCORE,
     confSigmoid |-> FALSE, data |-> bboxDataRaw(a), newData |-> bboxPermute(a)]

permuteBoxesArgs(a) ==
    [stream |-> a.stream, count |-> locCount(a), numClasses |-> numLocClasses(a),
     numPreds |-> a.numPredsPerClass, dim |-> 4, DT |-> a.DT_BBOX,
     confSigmoid |-> FALSE, data |-> bboxDataRaw(a), newData |-> bboxPermute(a)]

permuteScoresArgs(a) ==
    [stream |-> a.stream, count |-> numScores(a), numClasses |-> a.numClasses,
     numPreds |-> a.numPredsPerClass, dim |-> 1, DT |-> a.DT_SCORE,
     confSigmoid |-> a.confSigmoid, data |-> a.confData, newData |-> scores(a)]

sortScoresPerClassArgs_NoBackground(a) ==
    [stream |-> a.stream, N |-> a.N, numClasses |-> a.numClasses,
     numPredsPerClass |-> a.numPredsPerClass,
     backgroundLabelId |-> -1,
     confidenceThreshold |-> a.confidenceThreshold, DT_SCORE |-> a.DT_SCORE,
     confScores |-> scores(a), indexArray |-> indices(a),
     workspace |-> sortingWorkspace(a), scoreBits |-> a.scoreBits,
     scoreShift |-> scoreShift(a)]

sortScoresPerClassArgs_NoThreshold(a) ==
    [stream |-> a.stream, N |-> a.N, numClasses |-> a.numClasses,
     numPredsPerClass |-> a.numPredsPerClass,
     backgroundLabelId |-> a.backgroundLabelId,
     confidenceThreshold |-> 0, DT_SCORE |-> a.DT_SCORE,
     confScores |-> scores(a), indexArray |-> indices(a),
     workspace |-> sortingWorkspace(a), scoreBits |-> a.scoreBits,
     scoreShift |-> scoreShift(a)]

sortScoresPerClassArgs(a) ==
    [stream |-> a.stream, N |-> a.N, numClasses |-> a.numClasses,
     numPredsPerClass |-> a.numPredsPerClass,
     backgroundLabelId |-> a.backgroundLabelId,
     confidenceThreshold |-> a.confidenceThreshold, DT_SCORE |-> a.DT_SCORE,
     confScores |-> scores(a), indexArray |-> indices(a),
     workspace |-> sortingWorkspace(a), scoreBits |-> a.scoreBits,
     scoreShift |-> scoreShift(a)]

allClassNMSArgs_OneList(a) ==
    [stream |-> a.stream, N |-> a.N, numClasses |-> 1,
     numPredsPerClass |-> a.numClasses * a.numPredsPerClass, topK |-> a.topK,
     nmsThreshold |-> a.nmsThreshold, shareLocation |-> a.shareLocation,
     isNormalized |-> a.isNormalized, DT_SCORE |-> a.DT_SCORE, DT_BBOX |-> a.DT_BBOX,
     bboxData |-> bboxData(a), beforeNMSScores |-> scores(a),
     beforeNMSIndex |-> indices(a), afterNMSScores |-> postNMSScores(a),
     afterNMSIndex |-> postNMSIndices(a), flipXY |-> FALSE,
     scoreShift |-> scoreShift(a), caffeSemantics |-> TRUE]

allClassNMSArgs_RawBoxes(a) ==
    [stream |-> a.stream, N |-> a.N, numClasses |-> a.numClasses,
     numPredsPerClass |-> a.numPredsPerClass, topK |-> a.topK,
     nmsThreshold |-> a.nmsThreshold, shareLocation |-> a.shareLocation,
     isNormalized |-> a.isNormalized, DT_SCORE |-> a.DT_SCORE, DT_BBOX |-> a.DT_BBOX,
     bboxData |-> bboxDataRaw(a), beforeNMSScores |-> scores(a),
     beforeNMSIndex |-> indices(a), afterNMSScores |-> postNMSScores(a),
     afterNMSIndex |-> postNMSIndices(a), flipXY |-> FALSE,
     scoreShift |-> scoreShift(a), caffeSemantics |-> TRUE]

allClassNMSArgs_OtherStream(a) ==
    [stream |-> 0, N |-> a.N, numClasses |-> a.numClasses,
     numPredsPerClass |-> a.numPredsPerClass, topK |-> a.topK,
     nmsThreshold |-> a.nmsThreshold, shareLocation |-> a.shareLocation,
     isNormalized |-> a.isNormalized, DT_SCORE |-> a.DT_SCORE, DT_BBOX |-> a.DT_BBOX,
     bboxData |-> bboxData(a), beforeNMSScores |-> scores(a),
     beforeNMSIndex |-> indices(a), afterNMSScores |-> postNMSScores(a),
     afterNMSIndex |-> postNMSIndices(a), flipXY |-> FALSE,
     scoreShift |-> scoreShift(a), caffeSemantics |-> TRUE]

allClassNMSArgs(a) ==
    [stream |-> a.stream, N |-> a.N, numClasses |-> a.numClasses,
     numPredsPerClass |-> a.numPredsPerClass, topK |-> a.topK,
     nmsThreshold |-> a.nmsThreshold, shareLocation |-> a.shareLocation,
     isNormalized |-> a.isNormalized, DT_SCORE |-> a.DT_SCORE, DT_BBOX |-> a.DT_BBOX,
     bboxData |-> bboxData(a), beforeNMSScores |-> scores(a),
     beforeNMSIndex |-> indices(a), afterNMSScores |-> postNMSScores(a),
     afterNMSIndex |-> postNMSIndices(a), flipXY |-> FALSE,
     scoreShift |-> scoreShift(a), caffeSemantics |-> TRUE]

sortScoresPerImageArgs_TopKItems(a) ==
    [stream |-> a.stream, N |-> a.N, numItemsPerImage |-> a.topK,
     DT_SCORE |-> a.DT_SCORE, unsortedScores |-> postNMSScores(a),
     unsortedBboxIndices |-> postNMSIndices(a), sortedScores |-> scores(a),
     sortedBboxIndices |-> indices(a), workspace |-> sortingWorkspace(a),
     scoreBits |-> a.scoreBits]

sortScoresPerImageArgs_IntoKeepCount(a) ==
    [stream |-> a.stream, N |-> a.N, numItemsPerImage |-> a.numClasses * a.topK,
     DT_SCORE |-> a.DT_SCORE, unsortedScores |-> postNMSScores(a),
     unsortedBboxIndices |-> postNMSIndices(a), sortedScores |-> scores(a),
     sortedBboxIndices |-> a.keepCount, workspace |-> sortingWorkspace(a),
     scoreBits |-> a.scoreBits]

\* The per-image sort done in place, over the post-NMS regions it reads.
sortScoresPerImageArgs_InPlace(a) ==
    [stream |-> a.stream, N |-> a.N, numItemsPerImage |-> a.numClasses * a.topK,
     DT_SCORE |-> a.DT_SCORE, unsortedScores |-> postNMSScores(a),
     unsortedBboxIndices |-> postNMSIndices(a), sortedScores |-> postNMSScores(a),
     sortedBboxIndices |-> postNMSIndices(a), workspace |-> sortingWorkspace(a),
     scoreBits |-> a.scoreBits]

sortScoresPerImageArgs(a) ==
    [stream |-> a.stream, N |-> a.N, numItemsPerImage |-> a.numClasses * a.topK,
     DT_SCORE |-> a.DT_SCORE, unsortedScores |-> postNMSScores(a),
     unsortedBboxIndices |-> postNMSIndices(a), sortedScores |-> scores(a),
     sortedBboxIndices |-> indices(a), workspace |-> sortingWorkspace(a),
     scoreBits |-> a.scoreBits]

gatherTopDetectionsArgs_OneSlot(a) ==
    [stream |-> a.stream, shareLocation |-> a.shareLocation, N |-> a.N,
     numPredsPerClass |-> a.numPredsPerClass, numClasses |-> a.numClasses,
     topK |-> a.topK, keepTopK |-> 1, DT_BBOX |-> a.DT_BBOX,
     DT_SCORE |-> a.DT_SCORE, indices |-> indices(a), scores |-> scores(a),
     bboxData |-> bboxData(a), keepCount |-> a.keepCount,
     topDetections |-> a.topDetections, scoreShift |-> scoreShift(a)]

gatherTopDetectionsArgs_ScoresAsIndices(a) ==
    [stream |-> a.stream, shareLocation |-> a.shareLocation, N |-> a.N,
     numPredsPerClass |-> a.numPredsPerClass, numClasses |-> a.numClasses,
     topK |-> a.topK, keepTopK |-> a.keepTopK, DT_BBOX |-> a.DT_BBOX,
     DT_SCORE |-> a.DT_SCORE, indices |-> scores(a), scores |-> indices(a),
     bboxData |-> bboxData(a), keepCount |-> a.keepCount,
     topDetections |-> a.topDetections, scoreShift |-> scoreShift(a)]

gatherTopDetectionsArgs_Unsorted(a) ==
    [stream |-> a.stream, shareLocation |-> a.shareLocation, N |-> a.N,
     numPredsPerClass |-> a.numPredsPerClass, numClasses |-> a.numClasses,
     topK |-> a.topK, keepTopK |-> a.keepTopK, DT_BBOX |-> a.DT_BBOX,
     DT_SCORE |-> a.DT_SCORE, indices |-> postNMSIndices(a),
     scores |-> postNMSScores(a),
     bboxData |-> bboxData(a), keepCount |-> a.keepCount,
     topDetections |-> a.topDetections, scoreShift |-> scoreShift(a)]

gatherTopDetectionsArgs_SwappedTopK(a) ==
    [stream |-> a.stream, shareLocation |-> a.shareLocation, N |-> a.N,
     numPredsPerClass |-> a.numPredsPerClass, numClasses |-> a.numClasses,
     topK |-> a.keepTopK, keepTopK |-> a.topK, DT_BBOX |-> a.DT_BBOX,
     DT_SCORE |-> a.DT_SCORE, indices |-> indices(a), scores |-> scores(a),
     bboxData |-> bboxData(a), keepCount |-> a.keepCount,
     topDetections |-> a.topDetections, scoreShift |-> scoreShift(a)]

\* The stored scores handed out as they are, the shift left on them.
gatherTopDetectionsArgs_NoUnshift(a) ==
    [stream |-> a.stream, shareLocation |-> a.shareLocation, N |-> a.N,
     numPredsPerClass |-> a.numPredsPerClass, numClasses |-> a.numClasses,
     topK |-> a.topK, keepTopK |-> a.keepTopK, DT_BBOX |-> a.DT_BBOX,
     DT_SCORE |-> a.DT_SCORE, indices |-> indices(a), scores |-> scores(a),
     bboxData |-> bboxData(a), keepCount |-> a.keepCount,
     topDetections |-> a.topDetections, scoreShift |-> 0]

gatherTopDetectionsArgs(a) ==
    [stream |-> a.stream, shareLocation |-> a.shareLocation, N |-> a.N,
     numPredsPerClass |-> a.numPredsPerClass, numClasses |-> a.numClasses,
     topK |-> a.topK, keepTopK |-> a.keepTopK, DT_BBOX |-> a.DT_BBOX,
     DT_SCORE |-> a.DT_SCORE, indices |-> indices(a), scores |-> scores(a),
     bboxData |-> bboxData(a), keepCount |-> a.keepCount,
     topDetections |-> a.topDetections, scoreShift |-> scoreShift(a)]

---------------------------------------------------------------------------
(* What the kernel of each stage call writes, as pairs <<pointer, items>>:  *)
(* the items it puts at the start of the buffer at the pointer, given the  *)
(* memory `m` it reads.                                                    *)

Scores(buf)  == [k \in DOMAIN buf |-> buf[k].score]
Indices(buf) == [k \in DOMAIN buf |-> buf[k].index]

Writes(stage, a, m) ==
    CASE stage = "decodeBBoxes" ->
             LET x == decodeBBoxesArgs(a)
             IN  << <<x.bboxData,
                      decodeBBoxes(x.count, x.numPredsPerClass, x.numLocClasses,
                                   Read(m, x.locData), Read(m, x.priorData))>> >>
      [] stage = "permuteBoxes" ->
             LET x == permuteBoxesArgs(a)
             IN  << <<x.newData,
                      permuteData(x.count, x.numClasses, x.numPreds, x.dim,
                                  Read(m, x.data))>> >>
      [] stage = "permuteScores" ->
             LET x == permuteScoresArgs(a)
             IN  << <<x.newData,
                      permuteData(x.count, x.numClasses, x.numPreds, x.dim,
                                  Read(m, x.data))>> >>
      [] stage = "sortScoresPerClass" ->
             LET x == sortScoresPerClassArgs(a)
                 sorted == sortScoresPerClass(x.N, x.numClasses, x.numPredsPerClass,
                                              x.backgroundLabelId, x.confidenceThreshold,
                                              Read(m, x.confScores), x.scoreShift)
             IN  << <<x.confScores, Scores(sorted)>>,
                    <<x.indexArray, Indices(sorted)>> >>
      [] stage = "allClassNMS" ->
             LET x == allClassNMSArgs(a)
                 kept == allClassNMS(x.N, x.numClasses, x.numPredsPerClass, x.topK,
                                     x.nmsThreshold, x.shareLocation, x.isNormalized,
                                     Read(m, x.bboxData), Read(m, x.beforeNMSScores),
                                     Read(m, x.beforeNMSIndex))
             IN  << <<x.afterNMSScores, Scores(kept)>>,
                    <<x.afterNMSIndex, Indices(kept)>> >>
      [] stage = "sortScoresPerImage" ->
             LET x == sortScoresPerImageArgs(a)
                 sorted == sortScoresPerImage(x.N, x.numItemsPerImage,
                                              Read(m, x.unsortedScores),
                                              Read(m, x.unsortedBboxIndices))
             IN  << <<x.sortedScores, Scores(sorted)>>,
                    <<x.sortedBboxIndices, Indices(sorted)>> >>
      [] stage = "gatherTopDetections" ->
             LET x == gatherTopDetectionsArgs(a)
                 out == gatherTopDetections(x.shareLocation, x.N, x.numPredsPerClass,
                                            x.numClasses, x.topK, x.keepTopK,
                                            Read(m, x.indices), Read(m, x.scores),
                                            Read(m, x.bboxData), x.scoreShift)
             IN  << <<x.keepCount, out.keepCount>>,
                    <<x.topDetections, out.topDetections>> >>

---------------------------------------------------------------------------
(* detectionInference: one action per stage call with its status check.    *)

InvocationIds == {1, 2}

\* What a stage call can return.  A stage handed a data type it has no kernel
\* for returns STATUS_BAD_PARAM without launching; otherwise its kernel runs,
\* and on a device that may fault the call can also report STATUS_FAILURE, with
\* the kernel's output either written or not.
Outcomes(a, supported) ==
    IF ~supported THEN {[st |-> STATUS_BAD_PARAM, ran |-> FALSE]}
    ELSE {[st |-> STATUS_SUCCESS, ran |-> TRUE]}
         \cup (IF a.mayFault
               THEN {[st |-> STATUS_FAILURE, ran |-> TRUE],
                     [st |-> STATUS_FAILURE, ran |-> FALSE]}
               ELSE {})

\* The call itself: the status is recorded and, if the kernel ran, it is on
\* the stream and its output buffers hold `writes` (pairs <<pointer, buffer>>).
RECURSIVE PutAll(_, _)
PutAll(m, writes) ==
    IF writes = << >> THEN m
    ELSE PutAll(Put(m, Head(writes)[1], Head(writes)[2]), Tail(writes))

Run(i, stage, o, writes) ==
    /\ invoked'  = [invoked EXCEPT ![i] = Append(@, <<stage, o.st>>)]
    /\ launched' = [launched EXCEPT ![i] = IF o.ran THEN Append(@, stage) ELSE @]
    /\ mem'      = IF o.ran THEN PutAll(mem, writes) ELSE mem

\* A loop back: the step to Gather is not taken while fewer than six stage
\* calls were made before the current one, so Sort-per-image is called again.
Goto_Again(i, stage) ==
    /\ pc' = [pc EXCEPT ![i] = IF stage = "gatherTopDetections" /\ Len(invoked[i]) < 6
                               THEN pc[i] ELSE stage]
    /\ UNCHANGED status

Goto(i, stage) == pc' = [pc EXCEPT ![i] = stage] /\ UNCHANGED status

Return(i, st) ==
    /\ pc' = [pc EXCEPT ![i] = "done"]
    /\ status' = [status EXCEPT ![i] = st]

\* ASSERT_FAILURE(exp): leave the function with STATUS_FAILURE unless exp.
ASSERT_FAILURE(i, exp, Then) == IF exp THEN Then ELSE Return(i, STATUS_FAILURE)

\* The expression every ASSERT_FAILURE of detectionInference tests.
StatusOk_NotFailure(st) == st # STATUS_FAILURE

StatusOk(st) == st = STATUS_SUCCESS

\* if (!shareLocation) { permuteData(boxes) }
PermuteBoxesCalled_Always(a) == TRUE

PermuteBoxesCalled(a) == ~a.shareLocation

CallDecodeBBoxes(i) ==
    /\ i \in DOMAIN pc /\ pc[i] = "decodeBBoxes"
    /\ LET x == decodeBBoxesArgs(arg[i])
       IN  \E o \in Outcomes(arg[i], x.DT_BBOX \in SupportedTypes) :
             /\ Run(i, "decodeBBoxes", o, Writes("decodeBBoxes", arg[i], mem))
             /\ ASSERT_FAILURE(i, StatusOk(o.st), 
                    Goto(i, IF PermuteBoxesCalled(arg[i])
                            THEN "permuteBoxes" ELSE "permuteScores"))
    /\ UNCHANGED <<arg, plan, queue, hostpc>>

CallPermuteBoxes(i) ==
    /\ i \in DOMAIN pc /\ pc[i] = "permuteBoxes"
    /\ LET x == permuteBoxesArgs(arg[i])
       IN  \E o \in Outcomes(arg[i], x.DT \in SupportedTypes) :
             /\ Run(i, "permuteBoxes", o, Writes("permuteBoxes", arg[i], mem))
             /\ ASSERT_FAILURE(i, StatusOk(o.st), Goto(i, "permuteScores"))
    /\ UNCHANGED <<arg, plan, queue, hostpc>>

CallPermuteScores(i) ==
    /\ i \in DOMAIN pc /\ pc[i] = "permuteScores"
    /\ LET x == permuteScoresArgs(arg[i])
       IN  \E o \in Outcomes(arg[i], x.DT \in SupportedTypes) :
             /\ Run(i, "permuteScores", o, Writes("permuteScores", arg[i], mem))
             /\ ASSERT_FAILURE(i, StatusOk(o.st), Goto(i, "sortScoresPerClass"))
    /\ UNCHANGED <<arg, plan, queue, hostpc>>

CallSortScoresPerClass(i) ==
    /\ i \in DOMAIN pc /\ pc[i] = "sortScoresPerClass"
    /\ LET x == sortScoresPerClassArgs(arg[i])
       IN  \E o \in Outcomes(arg[i], x.DT_SCORE \in SupportedTypes) :
             /\ Run(i, "sortScoresPerClass", o, Writes("sortScoresPerClass", arg[i], mem))
             /\ ASSERT_FAILURE(i, StatusOk(o.st), Goto(i, "allClassNMS"))
    /\ UNCHANGED <<arg, plan, queue, hostpc>>

CallAllClassNMS(i) ==
    /\ i \in DOMAIN pc /\ pc[i] = "allClassNMS"
    /\ LET x == allClassNMSArgs(arg[i])
       IN  \E o \in Outcomes(arg[i], x.DT_SCORE \in SupportedTypes /\ x.DT_BBOX \in SupportedTypes) :
             /\ Run(i, "allClassNMS", o, Writes("allClassNMS", arg[i], mem))
             /\ ASSERT_FAILURE(i, StatusOk(o.st), Goto(i, "sortScoresPerImage"))
    /\ UNCHANGED <<arg, plan, queue, hostpc>>

CallSortScoresPerImage(i) ==
    /\ i \in DOMAIN pc /\ pc[i] = "sortScoresPerImage"
    /\ LET x == sortScoresPerImageArgs(arg[i])
       IN  \E o \in Outcomes(arg[i], x.DT_SCORE \in SupportedTypes) :
             /\ Run(i, "sortScoresPerImage", o, Writes("sortScoresPerImage", arg[i], mem))
             /\ ASSERT_FAILURE(i, StatusOk(o.st), Goto(i, "gatherTopDetections"))
    /\ UNCHANGED <<arg, plan, queue, hostpc>>

CallGatherTopDetections(i) ==
    /\ i \in DOMAIN pc /\ pc[i] = "gatherTopDetections"
    /\ LET x == gatherTopDetectionsArgs(arg[i])
       IN  \E o \in Outcomes(arg[i], x.DT_SCORE \in SupportedTypes /\ x.DT_BBOX \in SupportedTypes) :
             /\ Run(i, "gatherTopDetections", o, Writes("gatherTopDetections", arg[i], mem))
             /\ ASSERT_FAILURE(i, StatusOk(o.st), Return(i, STATUS_SUCCESS))
    /\ UNCHANGED <<arg, plan, queue, hostpc>>

detectionInference(i) ==
    \/ CallDecodeBBoxes(i)
    \/ CallPermuteBoxes(i)
    \/ CallPermuteScores(i)
    \/ CallSortScoresPerClass(i)
    \/ CallAllClassNMS(i)
    \/ CallSortScoresPerImage(i)
    \/ CallGatherTopDetections(i)

Next == \E i \in InvocationIds : detectionInference(i)

---------------------------------------------------------------------------
(* The caller: parameters and buffers of one invocation.                   *)

MaxBatch   == 2    \* N
MaxClasses == 2    \* numClasses
MaxPreds   == 3    \* numPredsPerClass
MaxElems   == 4    \* N * numClasses * numPredsPerClass

\* Confidences: 1 is the threshold itself and is filtered, 2 and 3 pass.
Confidences == {1, 2, 3}

TopKs     == {1, 2}
KeepTopKs == {1, 2}

\* Each invocation gets buffers of its own: the workspace at the start of a
\* region, the inputs and outputs behind it.
ArenaOf(i) == i * 1048576

CallerBuffers(i) ==
    [stream        |-> i,
     workspace     |-> ArenaOf(i),
     locData       |-> ArenaOf(i) + 524288,
     priorData     |-> ArenaOf(i) + 528384,
     confData      |-> ArenaOf(i) + 532480,
     keepCount     |-> ArenaOf(i) + 536576,
     topDetections |-> ArenaOf(i) + 540672]

\* The parameters of a call from its free choices `s`; C1 and C2 are the
\* per-image element counts of the location and confidence tensors.
MkArg(i, s) ==
    s @@ CallerBuffers(i) @@
    [C1 |-> s.numPredsPerClass * (IF s.shareLocation THEN 1 ELSE s.numClasses) * 4,
     C2 |-> s.numClasses * s.numPredsPerClass,
     varianceEncodedInTarget |-> TRUE,
     confidenceThreshold |-> 1,
     isNormalized |-> TRUE,
     confSigmoid |-> FALSE,
     isBatchAgnostic |-> TRUE]

PriorBox == <<0, 0, 3, 1>>

\* Offsets that move the prior by 0 or 1: the two decoded boxes overlap by
\* exactly one half.
LocOffsets == {<<0, 0, 0, 0>>, <<1, 0, 1, 0>>}

NmsThresholds == {<<1, 2>>, <<3, 4>>}

NumBoxes(a) == a.N * a.numPredsPerClass * numLocClasses(a)

\* What an earlier use left in the output buffers: values no run writes.
StaleCount     == 0 - 99
StaleDetection == [imgId |-> 0 - 99, label |-> 0 - 99, score |-> 0 - 99, box |-> NoBox]

\* Memory at call entry: the three inputs, and the two outputs holding
\* whatever an earlier use left there.
EntryMem(a, loc, conf) ==
    (a.locData       :> loc) @@
    (a.priorData     :> [p \in 1..a.numPredsPerClass |-> PriorBox]) @@
    (a.confData      :> conf) @@
    (a.keepCount     :> [n \in 1..a.N |-> StaleCount]) @@
    (a.topDetections :> [g \in 1..(a.N * a.keepTopK) |-> StaleDetection])

Shapes(maxElems) ==
    {s \in [N : 1..MaxBatch, numClasses : 1..MaxClasses, numPredsPerClass : 1..MaxPreds] :
        s.N * s.numClasses * s.numPredsPerClass <= maxElems}

Entry(a, m) ==
    /\ arg      = (1 :> a)
    /\ pc       = (1 :> "decodeBBoxes")
    /\ status   = (1 :> "none")
    /\ invoked  = (1 :> << >>)
    /\ launched = (1 :> << >>)
    /\ mem      = m
    /\ plan     = "none"
    /\ queue    = << >>
    /\ hostpc   = "none"

\* Calls of every data-type combination on a device that may fault.
Init ==
    \E sh \in Shapes(2), share \in BOOLEAN, dtb \in DataTypes, dts \in DataTypes,
       sbits \in {0, 10}, keep \in KeepTopKs :
        LET a == MkArg(1, sh @@ [shareLocation |-> share, backgroundLabelId |-> -1,
                                 topK |-> 1, keepTopK |-> keep,
                                 nmsThreshold |-> <<1, 2>>, codeType |-> "CORNER",
                                 DT_BBOX |-> dtb, DT_SCORE |-> dts,
                                 scoreBits |-> sbits, mayFault |-> TRUE])
        IN  Entry(a, EntryMem(a, [k \in 1..NumBoxes(a) |-> NoBox],
                                 [k \in 1..numScores(a) |-> 3]))

Spec == Init /\ [][Next]_vars

\* Calls on every input of a small shape, in 32-bit floats, without faults.
InitData ==
    \E sh \in Shapes(MaxElems), share \in BOOLEAN, topK \in TopKs,
       keep \in KeepTopKs, th \in NmsThresholds :
        LET a == MkArg(1, sh @@ [shareLocation |-> share, backgroundLabelId |-> -1,
                                 topK |-> topK, keepTopK |-> keep,
                                 nmsThreshold |-> th, codeType |-> "CORNER",
                                 DT_BBOX |-> kFLOAT, DT_SCORE |-> kFLOAT,
                                 scoreBits |-> 0, mayFault |-> FALSE])
        IN  \E loc \in [1..NumBoxes(a) -> LocOffsets],
               conf \in [1..numScores(a) -> Confidences] :
                Entry(a, EntryMem(a, loc, conf))

SpecData == InitData /\ [][Next]_vars

---------------------------------------------------------------------------
(* Calls that name a background class, on every score vector of a small    *)
(* shape; the boxes all coincide with the prior.                           *)

InitBackground ==
    \E sh \in Shapes(MaxElems), share \in BOOLEAN, topK \in TopKs,
       keep \in KeepTopKs, bg \in 0..(MaxClasses - 1) :
        LET a == MkArg(1, sh @@ [shareLocation |-> share, backgroundLabelId |-> bg,
                                 topK |-> topK, keepTopK |-> keep,
                                 nmsThreshold |-> <<3, 4>>, codeType |-> "CORNER",
                                 DT_BBOX |-> kFLOAT, DT_SCORE |-> kFLOAT,
                                 scoreBits |-> 0, mayFault |-> FALSE])
        IN  \E conf \in [1..numScores(a) -> Confidences] :
                Entry(a, EntryMem(a, [k \in 1..NumBoxes(a) |-> NoBox], conf))

SpecBackground == InitBackground /\ [][Next]_vars

---------------------------------------------------------------------------
(* The workspace layout as a function of the parameters alone: one step    *)
(* derives the pointers as detectionInference does, one answers the        *)
(* workspace-size query.                                                   *)

\* Shapes whose sub-buffers fall on, below and above the 256-byte alignment.
LayoutPreds == {1, 7, 16, 64}
LayoutTopKs == {1, 3, 100}

InitLayout ==
    \E N \in 1..MaxBatch, nc \in 1..MaxClasses, np \in LayoutPreds,
       share \in BOOLEAN, dtb \in SupportedTypes, dts \in SupportedTypes,
       topK \in LayoutTopKs :
        /\ arg = (1 :> MkArg(1, [N |-> N, numClasses |-> nc, numPredsPerClass |-> np,
                                 shareLocation |-> share, backgroundLabelId |-> -1,
                                 topK |-> topK, keepTopK |-> 1,
                                 nmsThreshold |-> <<1, 2>>, codeType |-> "CORNER",
                                 DT_BBOX |-> dtb, DT_SCORE |-> dts,
                                 scoreBits |-> 0, mayFault |-> FALSE]))
        /\ pc       = (1 :> "layout")
        /\ status   = (1 :> "none")
        /\ invoked  = (1 :> << >>)
        /\ launched = (1 :> << >>)
        /\ mem      = << >>
        /\ plan     = [exec |-> << >>, query |-> << >>]
        /\ queue    = << >>
        /\ hostpc   = "none"

PlanExecution ==
    /\ pc[1] = "layout" /\ plan.exec = << >>
    /\ plan' = [plan EXCEPT !.exec = ExecPlan(arg[1])]
    /\ UNCHANGED <<arg, pc, status, invoked, launched, mem, queue, hostpc>>

PlanQuery ==
    /\ pc[1] = "layout" /\ plan.query = << >>
    /\ plan' = [plan EXCEPT !.query = QueryPlan(arg[1])]
    /\ UNCHANGED <<arg, pc, status, invoked, launched, mem, queue, hostpc>>

NextLayout == PlanExecution \/ PlanQuery

SpecLayout == InitLayout /\ [][NextLayout]_vars

---------------------------------------------------------------------------
(* The stream.  A stage call launches its kernel on the stream it is handed *)
(* and returns; the device runs the work units of a kernel in any order,    *)
(* and starts a kernel only when every kernel issued before it on the same  *)
(* stream has completed.                                                    *)

MaxUnits == 2    \* parallel work units of one kernel

Units == 1..MaxUnits

StageAfter(stage, a) ==
    CASE stage = "decodeBBoxes" ->
             (IF PermuteBoxesCalled(a) THEN "permuteBoxes" ELSE "permuteScores")
      [] stage = "permuteBoxes"        -> "permuteScores"
      [] stage = "permuteScores"       -> "sortScoresPerClass"
      [] stage = "sortScoresPerClass"  -> "allClassNMS"
      [] stage = "allClassNMS"         -> "sortScoresPerImage"
      [] stage = "sortScoresPerImage"  -> "gatherTopDetections"
      [] stage = "gatherTopDetections" -> "done"

\* The kernel a stage call launches: its stream and the buffers it reads and
\* writes, from the arguments of the call.
Access(stage, a) ==
    CASE stage = "decodeBBoxes" ->
             LET x == decodeBBoxesArgs(a)
             IN  [stream |-> x.stream, reads |-> {x.locData, x.priorData},
                  writes |-> {x.bboxData}]
      [] stage = "permuteBoxes" ->
             LET x == permuteBoxesArgs(a)
             IN  [stream |-> x.stream, reads |-> {x.data}, writes |-> {x.newData}]
      [] stage = "permuteScores" ->
             LET x == permuteScoresArgs(a)
             IN  [stream |-> x.stream, reads |-> {x.data}, writes |-> {x.newData}]
      [] stage = "sortScoresPerClass" ->
             LET x == sortScoresPerClassArgs(a)
             IN  [stream |-> x.stream, reads |-> {x.confScores},
                  writes |-> {x.confScores, x.indexArray, x.workspace}]
      [] stage = "allClassNMS" ->
             LET x == allClassNMSArgs(a)
             IN  [stream |-> x.stream,
                  reads |-> {x.bboxData, x.beforeNMSScores, x.beforeNMSIndex},
                  writes |-> {x.afterNMSScores, x.afterNMSIndex}]
      [] stage = "sortScoresPerImage" ->
             LET x == sortScoresPerImageArgs(a)
             IN  [stream |-> x.stream,
                  reads |-> {x.unsortedScores, x.unsortedBboxIndices},
                  writes |-> {x.sortedScores, x.sortedBboxIndices, x.workspace}]
      [] stage = "gatherTopDetections" ->
             LET x == gatherTopDetectionsArgs(a)
             IN  [stream |-> x.stream, reads |-> {x.indices, x.scores, x.bboxData},
                  writes |-> {x.keepCount, x.topDetections}]

Kernel(stage, a) ==
    Access(stage, a) @@ [stage |-> stage, todo |-> Units, begun |-> FALSE]

InitStream ==
    \E sh \in Shapes(2), share \in BOOLEAN, dts \in SupportedTypes :
        /\ arg = (1 :> MkArg(1, sh @@ [shareLocation |-> share, backgroundLabelId |-> -1,
                                       topK |-> 1, keepTopK |-> 1,
                                       nmsThreshold |-> <<1, 2>>, codeType |-> "CORNER",
                                       DT_BBOX |-> kFLOAT, DT_SCORE |-> dts,
                                       scoreBits |-> 0, mayFault |-> FALSE]))
        /\ pc       = (1 :> "stream")
        /\ status   = (1 :> "none")
        /\ invoked  = (1 :> << >>)
        /\ launched = (1 :> << >>)
        /\ mem      = << >>
        /\ plan     = "none"
        /\ queue    = << >>
        /\ hostpc   = "decodeBBoxes"

\* The host: the next stage call of detectionInference launches its kernel.
Issue ==
    /\ pc[1] = "stream" /\ hostpc # "done"
    /\ queue'  = Append(queue, Kernel(hostpc, arg[1]))
    /\ hostpc' = StageAfter(hostpc, arg[1])
    /\ UNCHANGED <<arg, pc, status, invoked, launched, mem, plan>>

\* A kernel may run when it is the oldest of its stream.
Runnable(q) == \A j \in 1..(q - 1) : queue[j].stream # queue[q].stream

Without(seq, q) == [k \in 1..(Len(seq) - 1) |-> IF k < q THEN seq[k] ELSE seq[k + 1]]

\* The device: one work unit of a runnable kernel runs; the kernel completes
\* with its last unit.
RunUnit ==
    /\ pc[1] = "stream"
    /\ \E q \in DOMAIN queue : \E u \in queue[q].todo :
          /\ Runnable(q)
          /\ queue' = IF queue[q].todo = {u}
                      THEN Without(queue, q)
                      ELSE [queue EXCEPT ![q].todo = @ \ {u}, ![q].begun = TRUE]
    /\ UNCHANGED <<arg, pc, status, invoked, launched, mem, plan, hostpc>>

NextStream == Issue \/ RunUnit

SpecStream == InitStream /\ [][NextStream]_vars

---------------------------------------------------------------------------
(* Two invocations at once, each on a stream and on buffers of its own;    *)
(* their stage calls interleave in any order.                              *)

\* One caller's free choices: a shape, the box layout, one offset for all its
\* boxes and one confidence for all its scores.
CallerChoices ==
    {c \in [sh : Shapes(2), share : BOOLEAN, off : LocOffsets, conf : {1, 3}] : TRUE}

CallerArg(i, c) ==
    MkArg(i, c.sh @@ [shareLocation |-> c.share, backgroundLabelId |-> -1,
                      topK |-> 1, keepTopK |-> 1,
                      nmsThreshold |-> <<1, 2>>, codeType |-> "CORNER",
                      DT_BBOX |-> kFLOAT, DT_SCORE |-> kFLOAT,
                      scoreBits |-> 0, mayFault |-> FALSE])

CallerMem(i, c) ==
    LET a == CallerArg(i, c)
    IN  EntryMem(a, [k \in 1..NumBoxes(a) |-> c.off], [k \in 1..numScores(a) |-> c.conf])

InitTwo ==
    \E c1 \in CallerChoices, c2 \in CallerChoices :
        /\ arg      = (1 :> CallerArg(1, c1)) @@ (2 :> CallerArg(2, c2))
        /\ pc       = (1 :> "decodeBBoxes") @@ (2 :> "decodeBBoxes")
        /\ status   = (1 :> "none") @@ (2 :> "none")
        /\ invoked  = (1 :> << >>) @@ (2 :> << >>)
        /\ launched = (1 :> << >>) @@ (2 :> << >>)
        /\ mem      = CallerMem(1, c1) @@ CallerMem(2, c2)
        /\ plan     = "none"
        /\ queue    = << >>
        /\ hostpc   = "none"

SpecTwo == InitTwo /\ [][Next]_vars

---------------------------------------------------------------------------
(* The parallel work inside a kernel.  The work of a stage is split by     *)
(* image; the units of the running kernel execute in any order, each       *)
(* computing its part of the stage's output from the memory as it finds it *)
(* and writing that part alone.  The next kernel starts when the last unit *)
(* has run.  Invocation 2 stands for another run on identical inputs.      *)

\* The positions of `items` that belong to image n.
ImagePart(items, n, N) ==
    {k \in 1..Len(items) : (k - 1) \div (Len(items) \div N) = n}

PutPart(m, p, items, n, N) ==
    LET old  == Read(m, p)
        part == ImagePart(items, n, N)
    IN  [q \in (DOMAIN m) \cup {p} |->
            IF q = p
            THEN [k \in (DOMAIN old) \cup part |-> IF k \in part THEN items[k] ELSE old[k]]
            ELSE m[q]]

RECURSIVE PutParts(_, _, _, _)
PutParts(m, writes, n, N) ==
    IF writes = << >> THEN m
    ELSE PutParts(PutPart(m, Head(writes)[1], Head(writes)[2], n, N),
                  Tail(writes), n, N)

\* Per-image inputs: one offset for the boxes of an image, any confident
\* score for each of its priors and classes.
InitUnits ==
    \E sh \in Shapes(MaxElems), share \in BOOLEAN, topK \in TopKs, keep \in KeepTopKs :
        LET c(i) == MkArg(i, sh @@ [shareLocation |-> share, backgroundLabelId |-> -1,
                                    topK |-> topK, keepTopK |-> keep,
                                    nmsThreshold |-> <<3, 4>>, codeType |-> "CORNER",
                                    DT_BBOX |-> kFLOAT, DT_SCORE |-> kFLOAT,
                                    scoreBits |-> 0, mayFault |-> FALSE])
        IN  \E off \in [0..(sh.N - 1) -> LocOffsets],
               conf \in [1..numScores(c(1)) -> {2, 3}] :
                LET loc == [k \in 1..NumBoxes(c(1)) |->
                               off[(k - 1) \div (NumBoxes(c(1)) \div sh.N)]]
                IN  /\ arg      = (1 :> c(1)) @@ (2 :> c(2))
                    /\ pc       = (1 :> "units")
                    /\ status   = (1 :> "none")
                    /\ invoked  = (1 :> << >>)
                    /\ launched = (1 :> << >>)
                    /\ mem      = EntryMem(c(1), loc, conf) @@ EntryMem(c(2), loc, conf)
                    /\ plan     = "none"
                    /\ queue    = 0..(sh.N - 1)
                    /\ hostpc   = "decodeBBoxes"

RunWorkUnit ==
    /\ pc[1] = "units" /\ hostpc # "done"
    /\ \E n \in queue :
          /\ mem' = PutParts(mem, Writes(hostpc, arg[1], mem), n, arg[1].N)
          /\ IF queue = {n}
             THEN /\ hostpc' = StageAfter(hostpc, arg[1])
                  /\ queue'  = IF hostpc' = "done" THEN {} ELSE 0..(arg[1].N - 1)
             ELSE /\ hostpc' = hostpc
                  /\ queue'  = queue \ {n}
    /\ UNCHANGED <<arg, pc, status, invoked, launched, plan>>

NextUnits == RunWorkUnit

SpecUnits == InitUnits /\ [][NextUnits]_vars

---------------------------------------------------------------------------
(* Properties of the orchestration.                                        *)

StageNames(i) == [k \in DOMAIN invoked[i] |-> invoked[i][k][1]]

LastStage(i)  == invoked[i][Len(invoked[i])][1]
LastStatus(i) == invoked[i][Len(invoked[i])][2]

PipelineOrder(shareLocation) ==
    IF shareLocation
    THEN <<"decodeBBoxes", "permuteScores", "sortScoresPerClass", "allClassNMS",
           "sortScoresPerImage", "gatherTopDetections">>
    ELSE <<"decodeBBoxes", "permuteBoxes", "permuteScores", "sortScoresPerClass",
           "allClassNMS", "sortScoresPerImage", "gatherTopDetections">>

IsPrefix(s, t) == Len(s) <= Len(t) /\ s = SubSeq(t, 1, Len(s))

\* C1: the stages are called in the order Decode, Permute-boxes (exactly when
\* shareLocation is false), Permute-scores, Sort-per-class, NMS, Sort-per-image,
\* Gather: what has been called so far is always an initial part of that order,
\* every call but the latest has returned success, and a call that returned
\* success has gone through the whole order.
C1_StageOrder ==
    \A i \in DOMAIN pc :
        LET order == PipelineOrder(arg[i].shareLocation)
        IN  /\ IsPrefix(StageNames(i), order)
            /\ \A k \in 1..(Len(invoked[i]) - 1) : invoked[i][k][2] = STATUS_SUCCESS
            /\ status[i] = STATUS_SUCCESS => StageNames(i) = order
            /\ pc[i] # "done" => /\ Len(invoked[i]) < Len(order)
                                 /\ pc[i] = order[Len(invoked[i]) + 1]

C1_Witness ==
    /\ status[1] = STATUS_SUCCESS
    /\ ~arg[1].shareLocation
    /\ Len(invoked[1]) = 7
    /\ invoked[1][2][1] = "permuteBoxes"

\* C2: a stage that returns a status other than success is the last stage
\* called, the invocation has then returned a failure status, and the
\* invocation returns STATUS_SUCCESS exactly when every stage it called
\* returned success.
C2_HaltOnFailure ==
    \A i \in DOMAIN pc :
        /\ \A k \in DOMAIN invoked[i] :
               invoked[i][k][2] # STATUS_SUCCESS =>
                   /\ k = Len(invoked[i])
                   /\ pc[i] = "done"
                   /\ status[i] \in {STATUS_FAILURE, STATUS_BAD_PARAM}
        /\ pc[i] = "done" =>
               (status[i] = STATUS_SUCCESS <=>
                   \A k \in DOMAIN invoked[i] : invoked[i][k][2] = STATUS_SUCCESS)

C2_Witness ==
    /\ pc[1] = "done"
    /\ status[1] = STATUS_FAILURE
    /\ LastStage(1) = "allClassNMS"
    /\ LastStatus(1) = STATUS_FAILURE
    /\ Len(invoked[1]) < Len(PipelineOrder(arg[1].shareLocation))

\* The invocation failed because a stage rejected its configuration.
ConfigError(i) ==
    /\ pc[i] = "done"
    /\ status[i] # STATUS_SUCCESS
    /\ LastStatus(i) = STATUS_BAD_PARAM

WorkspaceWritten(i) ==
    \E p \in DOMAIN mem : arg[i].workspace <= p /\ p < arg[i].locData

\* C3 as stated: when the invocation fails for a configuration error, no stage
\* has been launched and no workspace byte has been written.
C3_Original ==
    \A i \in DOMAIN pc :
        ConfigError(i) => launched[i] = << >> /\ ~WorkspaceWritten(i)

\* C3, amended: a configuration error is found by the first stage that is
\* handed the unsupported data type, before that stage launches its own kernel.
\* An unsupported box type fails in Decode with nothing launched and no
\* workspace byte written; an unsupported score type alone fails in
\* Permute-scores, after Decode (and Permute-boxes when shareLocation is false)
\* have been launched and have written exactly their own regions.
C3_ConfigErrorAtFirstUse ==
    \A i \in DOMAIN pc :
        ConfigError(i) =>
            LET a == arg[i]
            IN  /\ \A k \in DOMAIN launched[i] : launched[i][k] # LastStage(i)
                /\ a.DT_BBOX \notin SupportedTypes =>
                       /\ LastStage(i) = "decodeBBoxes"
                       /\ launched[i] = << >>
                       /\ ~WorkspaceWritten(i)
                /\ a.DT_BBOX \in SupportedTypes =>
                       /\ a.DT_SCORE \notin SupportedTypes
                       /\ LastStage(i) = "permuteScores"
                       /\ launched[i] = IF a.shareLocation
                                        THEN <<"decodeBBoxes">>
                                        ELSE <<"decodeBBoxes", "permuteBoxes">>
                       /\ {p \in DOMAIN mem : a.workspace <= p /\ p < a.locData}
                              = IF a.shareLocation
                                THEN {bboxDataRaw(a)}
                                ELSE {bboxDataRaw(a), bboxPermute(a)}

C3_Witness ==
    /\ ConfigError(1)
    /\ arg[1].DT_BBOX \in SupportedTypes
    /\ launched[1] = <<"decodeBBoxes", "permuteBoxes">>
    /\ WorkspaceWritten(1)

\* C4: keepCount and topDetections hold what they held at call entry until the
\* Gather kernel runs; in particular they do after a failure of any earlier
\* stage.
OutputsAsAtEntry(i) ==
    /\ mem[arg[i].keepCount] = [n \in 1..arg[i].N |-> StaleCount]
    /\ mem[arg[i].topDetections] =
           [g \in 1..(arg[i].N * arg[i].keepTopK) |-> StaleDetection]

C4_OutputsOnlyByGather ==
    \A i \in DOMAIN pc :
        /\ (\A k \in DOMAIN launched[i] : launched[i][k] # "gatherTopDetections")
               => OutputsAsAtEntry(i)
        /\ (pc[i] = "done" /\ status[i] # STATUS_SUCCESS
                /\ LastStage(i) # "gatherTopDetections")
               => OutputsAsAtEntry(i)

C4_Witness ==
    /\ pc[1] = "done"
    /\ status[1] = STATUS_FAILURE
    /\ LastStage(1) = "sortScoresPerImage"
    /\ launched[1][Len(launched[1])] = "sortScoresPerImage"
    /\ OutputsAsAtEntry(1)

---------------------------------------------------------------------------
(* C5 *)

RegionEnd(r) == r.ptr + r.size

\* C5: the seven sub-buffers lie in the workspace in the order decoded boxes,
\* permuted boxes, permuted scores, sort indices, post-NMS scores, post-NMS
\* indices, sorting scratch: the first starts at the workspace, each later
\* one starts at or after the end of the one before it, and so the byte
\* ranges of any two of them do not overlap.
C5_RegionsInOrderDisjoint ==
    plan.exec # << >> =>
        LET e == plan.exec
        IN  /\ Len(e) = 7
            /\ e[1].ptr = arg[1].workspace
            /\ \A k \in 1..7 : e[k].size >= 0
            /\ \A k \in 1..6 : e[k + 1].ptr >= RegionEnd(e[k])
            /\ \A j \in 1..7 : \A k \in 1..7 :
                   j < k => RegionEnd(e[j]) <= e[k].ptr

\* A per-class layout with 16-bit scores in which every one of the first six
\* regions is non-empty and alignment padding separates two of them.
C5_Witness ==
    /\ plan.exec # << >>
    /\ ~arg[1].shareLocation /\ arg[1].DT_SCORE = kHALF
    /\ \A k \in 1..6 : plan.exec[k].size > 0
    /\ \E k \in 1..6 : plan.exec[k + 1].ptr > RegionEnd(plan.exec[k])

---------------------------------------------------------------------------
(* C6 *)

\* C6: the offsets and sizes detectionInference uses for its sub-buffers are
\* those the workspace-size query computes, for 32-bit and for 16-bit scores.
C6_QueryEqualsExecution ==
    plan.exec # << >> /\ plan.query # << >> =>
        \A k \in 1..6 : /\ plan.exec[k].ptr  = plan.query[k].ptr
                        /\ plan.exec[k].size = plan.query[k].size
---------------------------------------------------------------------------
(* C7 *)

StagePosition(stage) ==
    CHOOSE k \in 1..7 : PipelineOrder(FALSE)[k] = stage

\* C7: every kernel of the invocation is on the caller's stream, the kernels
\* are queued in the order of the pipeline, and a kernel that has run any of
\* its work units shares no buffer with an earlier kernel that is still
\* running or waiting and writes that buffer: a stage never reads (or
\* overwrites) what its predecessor is still writing.
C7_StreamOrder ==
    /\ \A k \in DOMAIN queue : queue[k].stream = arg[1].stream
    /\ \A j \in DOMAIN queue : \A k \in DOMAIN queue :
          j < k =>
            /\ StagePosition(queue[j].stage) < StagePosition(queue[k].stage)
            /\ (queue[k].begun \/ queue[k].todo # Units) =>
                   queue[j].writes \cap (queue[k].reads \cup queue[k].writes) = {}

\* A kernel is part-way through its work units while the next stage, which
\* reads a buffer it writes, is already queued behind it.
C7_Witness ==
    /\ Len(queue) >= 2
    /\ queue[1].begun /\ queue[1].todo # Units /\ queue[1].todo # {}
    /\ queue[1].writes \cap queue[2].reads # {}
    /\ ~queue[2].begun
---------------------------------------------------------------------------
(* C8 *)

\* The invocation run by itself: its stages one after the other, from a
\* memory that holds nothing but its own inputs.
RECURSIVE RunFrom(_, _, _)
RunFrom(stage, a, m) ==
    IF stage = "done" THEN m
    ELSE CHOOSE r \in {RunFrom(StageAfter(stage, a), a, after) :
                          after \in {PutAll(m, Writes(stage, a, m))}} : TRUE

InputsOf(a, m) == [p \in {a.locData, a.priorData, a.confData} |-> m[p]]

RunAlone(a, m) == RunFrom("decodeBBoxes", a, InputsOf(a, m))

\* The caller's side of an invocation: its input and output buffers and the
\* workspace it allocated, as large as the workspace-size query asks.
CallerPointers(a) ==
    {a.locData, a.priorData, a.confData, a.keepCount, a.topDetections}

WorkspaceEnd(a) == LET last == QueryPlan(a)[6] IN last.ptr + last.size

DisjointBuffers(a, b) ==
    /\ CallerPointers(a) \cap CallerPointers(b) = {}
    /\ \A p \in CallerPointers(a) \cup CallerPointers(b) :
          /\ p < a.workspace \/ p >= WorkspaceEnd(a)
          /\ p < b.workspace \/ p >= WorkspaceEnd(b)
    /\ WorkspaceEnd(a) <= b.workspace \/ WorkspaceEnd(b) <= a.workspace

\* C8: of two invocations on different streams and disjoint buffers, whose
\* stage calls interleave in any order, each that returns STATUS_SUCCESS has
\* left in its keepCount and topDetections what it leaves when run alone on
\* the same inputs.
C8_Independent ==
    \A i \in DOMAIN arg :
        (/\ status[i] = STATUS_SUCCESS
         /\ DOMAIN arg = {1, 2}
         /\ arg[1].stream # arg[2].stream
         /\ DisjointBuffers(arg[1], arg[2])) =>
            \A alone \in {RunAlone(arg[i], mem)} :
                /\ mem[arg[i].keepCount] = alone[arg[i].keepCount]
                /\ mem[arg[i].topDetections] = alone[arg[i].topDetections]

\* Both invocations have returned STATUS_SUCCESS, each with a detection, and
\* the two results differ.
C8_Witness ==
    /\ DOMAIN arg = {1, 2}
    /\ status[1] = STATUS_SUCCESS /\ status[2] = STATUS_SUCCESS
    /\ mem[arg[1].keepCount][1] = 1 /\ mem[arg[2].keepCount][1] = 1
    /\ mem[arg[1].topDetections][1].box # mem[arg[2].topDetections][1].box
---------------------------------------------------------------------------
(* C9 *)

\* The output slots of image n (0-based) that hold a detection, not the
\* sentinel.
ValidSlots(i, n) ==
    {g \in (n * arg[i].keepTopK + 1)..((n + 1) * arg[i].keepTopK) :
        mem[arg[i].topDetections][g].label # -1}

\* C9: after a successful invocation, for every image, keepCount is the
\* number of valid detections written for it, and it is at most keepTopK and
\* at most numClasses * topK.
C9_KeepCountBounded ==
    \A i \in DOMAIN arg :
        status[i] = STATUS_SUCCESS =>
            \A n \in 1..arg[i].N :
                /\ mem[arg[i].keepCount][n] = Cardinality(ValidSlots(i, n - 1))
                /\ mem[arg[i].keepCount][n] <= arg[i].keepTopK
                /\ mem[arg[i].keepCount][n] <= arg[i].numClasses * arg[i].topK

\* An image with more confident candidates than numClasses * topK and room
\* for more in the output: the count stops at numClasses * topK.
C9_Witness ==
    /\ status[1] = STATUS_SUCCESS
    /\ arg[1].numClasses * arg[1].topK < arg[1].keepTopK
    /\ mem[arg[1].keepCount][1] = arg[1].numClasses * arg[1].topK
    /\ Cardinality({k \in 1..arg[1].C2 :
                       mem[arg[1].confData][k] > arg[1].confidenceThreshold})
           > arg[1].numClasses * arg[1].topK

---------------------------------------------------------------------------
(* C10 *)

\* C10: after a successful invocation, any two detections of the same image
\* and class in the output have an intersection over union strictly below
\* nmsThreshold.
C10_SurvivorsBelowThreshold ==
    \A i \in DOMAIN arg :
        status[i] = STATUS_SUCCESS =>
            \A n \in 0..(arg[i].N - 1) :
                \A g \in ValidSlots(i, n) : \A h \in ValidSlots(i, n) :
                    LET d == mem[arg[i].topDetections][g]
                        e == mem[arg[i].topDetections][h]
                    IN  g # h /\ d.label = e.label =>
                            ~IoUAtLeast(d.box, e.box, arg[i].nmsThreshold,
                                        arg[i].isNormalized)

\* Two detections of one class in one image that overlap by half, under a
\* threshold of three quarters, are both in the output.
C10_Witness ==
    /\ status[1] = STATUS_SUCCESS
    /\ \E g \in ValidSlots(1, 0) : \E h \in ValidSlots(1, 0) :
          LET d == mem[arg[1].topDetections][g]
              e == mem[arg[1].topDetections][h]
          IN  /\ g # h /\ d.label = e.label
              /\ IoUAtLeast(d.box, e.box, <<1, 2>>, arg[1].isNormalized)
              /\ arg[1].nmsThreshold = <<3, 4>>

---------------------------------------------------------------------------
(* C11 *)

\* Between the NMS call and the per-image sort the workspace still holds the
\* ranked list of every (image, class) beside what NMS retained of it.
Candidates(i, n, c) ==
    LET a == arg[i]
    IN  [r \in 0..(a.numPredsPerClass - 1) |->
            At(mem[indices(a)], (n * a.numClasses + c) * a.numPredsPerClass + r)]

Retained(i, n, c) ==
    LET a == arg[i]
    IN  {At(mem[postNMSIndices(a)], (n * a.numClasses + c) * a.topK + t) :
            t \in 0..(a.topK - 1)} \ {-1}

CandidateBox(i, idx) ==
    BoxOfIndex(mem[bboxData(arg[i])], idx, arg[i].shareLocation,
               arg[i].numClasses, arg[i].numPredsPerClass)

Overlapping(i, idx, jdx) ==
    IoUAtLeast(CandidateBox(i, idx), CandidateBox(i, jdx), arg[i].nmsThreshold,
               arg[i].isNormalized)

\* C11: what NMS retains of an (image, class) is drawn from that list alone,
\* and a candidate of the list is left out exactly when a higher-ranked
\* retained candidate of the same list overlaps it by nmsThreshold or more, or
\* topK higher-ranked candidates of the list are retained already; boxes of
\* other classes play no part, whatever their overlap.
C11_ClassLocalNMS ==
    \A i \in DOMAIN arg :
        pc[i] = "sortScoresPerImage" =>
            \A n \in 0..(arg[i].N - 1) : \A c \in 0..(arg[i].numClasses - 1) :
                \A cand \in {Candidates(i, n, c)} : \A kept \in {Retained(i, n, c)} :
                    /\ kept \subseteq {cand[r] : r \in DOMAIN cand}
                    /\ \A r \in DOMAIN cand :
                          cand[r] # -1 =>
                            (cand[r] \in kept <=>
                               /\ ~\E q \in 0..(r - 1) :
                                     cand[q] \in kept /\ Overlapping(i, cand[q], cand[r])
                               /\ Cardinality({q \in 0..(r - 1) : cand[q] \in kept})
                                     < arg[i].topK)

\* Shared boxes, two classes: both classes retain the same box (overlap 1)
\* while within class 0 the second prior, on that very box, is suppressed.
C11_Witness ==
    /\ pc[1] = "sortScoresPerImage"
    /\ arg[1].shareLocation /\ arg[1].numClasses = 2 /\ arg[1].topK = 2
    /\ \E k0 \in Retained(1, 0, 0) : \E k1 \in Retained(1, 0, 1) :
          IoUAtLeast(CandidateBox(1, k0), CandidateBox(1, k1), <<1, 1>>, TRUE)
    /\ \E r \in 1..(arg[1].numPredsPerClass - 1) :
          /\ Candidates(1, 0, 0)[r] # -1
          /\ Candidates(1, 0, 0)[r] \notin Retained(1, 0, 0)
          /\ Overlapping(1, Candidates(1, 0, 0)[0], Candidates(1, 0, 0)[r])

---------------------------------------------------------------------------
(* C12 *)

Detection(i, g) == mem[arg[i].topDetections][g]

\* C12: after a successful invocation the valid detections of every image
\* stand in the output in non-increasing order of confidence, whatever their
\* classes.
C12_ScoresNonIncreasing ==
    \A i \in DOMAIN arg :
        status[i] = STATUS_SUCCESS =>
            \A n \in 0..(arg[i].N - 1) :
                \A g \in ValidSlots(i, n) : \A h \in ValidSlots(i, n) :
                    g < h => Detection(i, g).score >= Detection(i, h).score

\* The more confident detection is of class 1 and precedes one of class 0.
C12_Witness ==
    /\ status[1] = STATUS_SUCCESS
    /\ {1, 2} \subseteq ValidSlots(1, 0)
    /\ Detection(1, 1).label = 1 /\ Detection(1, 2).label = 0
    /\ Detection(1, 1).score > Detection(1, 2).score

---------------------------------------------------------------------------
(* C13 *)

\* The confidence the caller gave for prior p of class c in image n (0-based).
InputConfidence(i, n, p, c) ==
    At(mem[arg[i].confData], (n * arg[i].numPredsPerClass + p) * arg[i].numClasses + c)

\* C13: after a successful invocation every valid detection carries a
\* confidence above confidenceThreshold, and it is the confidence the input
\* gives to a prior of the detection's image and class.
C13_AboveConfidenceThreshold ==
    \A i \in DOMAIN arg :
        status[i] = STATUS_SUCCESS =>
            \A n \in 0..(arg[i].N - 1) : \A g \in ValidSlots(i, n) :
                /\ Detection(i, g).score > arg[i].confidenceThreshold
                /\ ~(Detection(i, g).score < arg[i].confidenceThreshold)
                /\ \E p \in 0..(arg[i].numPredsPerClass - 1) :
                      InputConfidence(i, n, p, Detection(i, g).label) = Detection(i, g).score

\* One prior of the image is at the threshold and is left out although the
\* output has room for it; another is above it and is emitted.
C13_Witness ==
    /\ status[1] = STATUS_SUCCESS
    /\ arg[1].topK = 2 /\ arg[1].keepTopK = 2 /\ arg[1].numPredsPerClass >= 2
    /\ mem[arg[1].keepCount][1] = 1
    /\ \E p \in 0..(arg[1].numPredsPerClass - 1) : \E c \in 0..(arg[1].numClasses - 1) :
          InputConfidence(1, 0, p, c) = arg[1].confidenceThreshold

---------------------------------------------------------------------------
(* C14 *)

\* C14: when backgroundLabelId is one of the class indices, no valid detection
\* of any image has that class, after a successful invocation.
C14_BackgroundExcluded ==
    \A i \in DOMAIN arg :
        (/\ status[i] = STATUS_SUCCESS
         /\ arg[i].backgroundLabelId \in 0..(arg[i].numClasses - 1)) =>
            \A n \in 0..(arg[i].N - 1) : \A g \in ValidSlots(i, n) :
                Detection(i, g).label # arg[i].backgroundLabelId

\* The background class has the most confident prior of the image, the
\* output has room for two detections, and only the other class is emitted.
C14_Witness ==
    /\ status[1] = STATUS_SUCCESS
    /\ arg[1].numClasses = 2 /\ arg[1].backgroundLabelId = 0
    /\ arg[1].topK = 2 /\ arg[1].keepTopK = 2
    /\ InputConfidence(1, 0, 0, 0) = 3 /\ InputConfidence(1, 0, 0, 1) = 2
    /\ mem[arg[1].keepCount][1] = 1
    /\ Detection(1, 1).label = 1

---------------------------------------------------------------------------
(* C15 *)

\* What NMS retained for image n over all its classes, as the detections
\* they would make: class, confidence and box.
Survivors(i, n) ==
    LET a == arg[i]
        E == {e \in (n * a.numClasses * a.topK)..((n + 1) * a.numClasses * a.topK - 1) :
                 At(mem[postNMSIndices(a)], e) # -1}
    IN  {[label |-> (At(mem[postNMSIndices(a)], e) % (a.numClasses * a.numPredsPerClass))
                        \div a.numPredsPerClass,
          score |-> ScoreSub(At(mem[postNMSScores(a)], e), scoreShift(a)),
          box   |-> CandidateBox(i, At(mem[postNMSIndices(a)], e))] : e \in E}

Emitted(i, n) ==
    {[label |-> Detection(i, g).label, score |-> Detection(i, g).score,
      box |-> Detection(i, g).box] : g \in ValidSlots(i, n)}

\* C15: after a successful invocation the valid output of an image is the
\* first min(keepTopK, number of post-NMS survivors) slots of the image; the
\* detections in them are survivors of the image, and no survivor left out
\* has a higher confidence than one that is emitted.
C15_TopKeepTopKOfRanking ==
    \A i \in DOMAIN arg :
        status[i] = STATUS_SUCCESS =>
            \A n \in 0..(arg[i].N - 1) :
                \A S \in {Survivors(i, n)} : \A O \in {Emitted(i, n)} :
                    /\ ValidSlots(i, n) =
                          (n * arg[i].keepTopK + 1)..
                              (n * arg[i].keepTopK + Min(arg[i].keepTopK, Cardinality(S)))
                    /\ Cardinality(O) = Cardinality(ValidSlots(i, n))
                    /\ O \subseteq S
                    /\ \A s \in S \ O : \A o \in O : s.score <= o.score

\* keepTopK = 1 and three survivors, one of them more confident than another:
\* the single detection of the image is a most confident one.
C15_Witness ==
    /\ status[1] = STATUS_SUCCESS
    /\ arg[1].keepTopK = 1
    /\ Cardinality(Survivors(1, 0)) >= 3
    /\ \E s \in Survivors(1, 0) : s.score = 2
    /\ ValidSlots(1, 0) = {1}
    /\ Detection(1, 1).score = 3

---------------------------------------------------------------------------
(* C16 *)

\* No prior of image n, of any class, is above the confidence threshold.
NothingConfident(i, n) ==
    \A p \in 0..(arg[i].numPredsPerClass - 1) : \A c \in 0..(arg[i].numClasses - 1) :
        InputConfidence(i, n, p, c) <= arg[i].confidenceThreshold

\* C16: for an image in which no score exceeds confidenceThreshold, the
\* ranked list of every class is empty after the per-class sort, every stage
\* of the pipeline is still called and succeeds, the invocation returns
\* STATUS_SUCCESS, and the image's keepCount is 0.
C16_EmptyImageIsNoError ==
    \A i \in DOMAIN arg : \A n \in 0..(arg[i].N - 1) :
        NothingConfident(i, n) =>
            /\ pc[i] = "allClassNMS" =>
                  \A c \in 0..(arg[i].numClasses - 1) :
                      \A r \in 0..(arg[i].numPredsPerClass - 1) :
                          Candidates(i, n, c)[r] = -1
            /\ pc[i] = "done" =>
                  /\ status[i] = STATUS_SUCCESS
                  /\ StageNames(i) = PipelineOrder(arg[i].shareLocation)
                  /\ launched[i] = PipelineOrder(arg[i].shareLocation)
                  /\ mem[arg[i].keepCount][n + 1] = 0
                  /\ ValidSlots(i, n) = {}

\* A batch of two: the first image has nothing above the threshold and
\* counts 0, the second has a detection.
C16_Witness ==
    /\ pc[1] = "done" /\ status[1] = STATUS_SUCCESS
    /\ arg[1].N = 2 /\ NothingConfident(1, 0)
    /\ mem[arg[1].keepCount][1] = 0 /\ mem[arg[1].keepCount][2] = 1

---------------------------------------------------------------------------
(* C17 *)

\* C17: after a successful invocation, every output slot of an image at a
\* position at or beyond the image's keepCount holds the sentinel (class id
\* -1, confidence 0, a zero box), not what the buffer held at entry.
C17_PaddingIsSentinel ==
    \A i \in DOMAIN arg :
        status[i] = STATUS_SUCCESS =>
            /\ Len(mem[arg[i].topDetections]) = arg[i].N * arg[i].keepTopK
            /\ \A n \in 0..(arg[i].N - 1) : \A d \in 0..(arg[i].keepTopK - 1) :
                  d >= mem[arg[i].keepCount][n + 1] =>
                      /\ Detection(i, n * arg[i].keepTopK + d + 1) = Sentinel(n)
                      /\ Detection(i, n * arg[i].keepTopK + d + 1) # StaleDetection

\* An image with one detection and two output slots, where the ranking has
\* one entry only: the second slot holds the sentinel.
C17_Witness ==
    /\ status[1] = STATUS_SUCCESS
    /\ arg[1].keepTopK = 2 /\ arg[1].numClasses * arg[1].topK = 1
    /\ mem[arg[1].keepCount][1] = 1
    /\ Detection(1, 1).label = 0
    /\ Detection(1, 2) = Sentinel(0)

---------------------------------------------------------------------------
(* C18 *)

\* Entries e < f of a ranking are in order: by descending score, equal
\* scores by ascending index; padding comes last.
RankedBefore(sc, idx, e, f) ==
    \/ At(idx, f) = -1
    \/ /\ At(idx, e) # -1
       /\ \/ At(sc, e) > At(sc, f)
          \/ At(sc, e) = At(sc, f) /\ At(idx, e) < At(idx, f)

---------------------------------------------------------------------------
(* Calls with 16-bit scores and the score shift enabled, on every vector   *)
(* of scores between 1/2 and 1/2 + 2^-10; neighbouring boxes differ.       *)

\* 1/2, 1/2 + 2^-11 and 1/2 + 2^-10: the middle one needs 11 fraction bits.
HalfConfidences == {1024, 1025, 1026}

ShiftBits == {1, 10}

InitShift ==
    \E sh \in Shapes(MaxElems), share \in BOOLEAN, topK \in TopKs,
       keep \in KeepTopKs, sbits \in ShiftBits :
        LET a == MkArg(1, sh @@ [shareLocation |-> share, backgroundLabelId |-> -1,
                                 topK |-> topK, keepTopK |-> keep,
                                 nmsThreshold |-> <<3, 4>>, codeType |-> "CORNER",
                                 DT_BBOX |-> kFLOAT, DT_SCORE |-> kHALF,
                                 scoreBits |-> sbits, mayFault |-> FALSE])
        IN  \E conf \in [1..numScores(a) -> HalfConfidences] :
                Entry(a, EntryMem(a, [k \in 1..NumBoxes(a) |->
                                         IF k % 2 = 1 THEN <<0, 0, 0, 0>> ELSE <<1, 0, 1, 0>>],
                                     conf))

SpecShift == InitShift /\ [][Next]_vars

---------------------------------------------------------------------------
(* C19 *)

\* The same call with the reduced-precision sort switched off.
ShiftDisabled(a) == [a EXCEPT !.scoreBits = 0]

SameOutputs(i, other) ==
    /\ mem[arg[i].keepCount] = other[arg[i].keepCount]
    /\ mem[arg[i].topDetections] = other[arg[i].topDetections]

---------------------------------------------------------------------------
(* Calls on one image whose boxes are the prior moved by 0, 1 or 2: boxes  *)
(* one step apart overlap by 1/2, boxes two steps apart by 1/5, so an      *)
(* overlap need not be transitive.                                         *)

NmsOffsets == {<<0, 0, 0, 0>>, <<1, 0, 1, 0>>, <<2, 0, 2, 0>>}

InitNms ==
    \E sh \in {s \in Shapes(MaxElems) : s.N = 1}, share \in BOOLEAN,
       topK \in TopKs, th \in NmsThresholds :
        LET a == MkArg(1, sh @@ [shareLocation |-> share, backgroundLabelId |-> -1,
                                 topK |-> topK, keepTopK |-> 2,
                                 nmsThreshold |-> th, codeType |-> "CORNER",
                                 DT_BBOX |-> kFLOAT, DT_SCORE |-> kFLOAT,
                                 scoreBits |-> 0, mayFault |-> FALSE])
        IN  \E loc \in [1..NumBoxes(a) -> NmsOffsets],
               conf \in [1..numScores(a) -> Confidences] :
                Entry(a, EntryMem(a, loc, conf))

SpecNms == InitNms /\ [][Next]_vars

---------------------------------------------------------------------------
(* C20 *)

\* The data-parallel formulation: a candidate (a rank of the segment at
\* `base`) survives when it is not padding, fewer than topK survivors rank
\* above it, and no survivor that ranks strictly above it overlaps it by the
\* threshold or more.  The result is the set of surviving ranks.
nmsParallel(base, numClasses, numPreds, topK, th, share, norm, in) ==
    LET box(r) == BoxOfIndex(in.bbox, At(in.indices, base + r), share, numClasses, numPreds)
        survives[r \in 0..(numPreds - 1)] ==
            /\ At(in.indices, base + r) # -1
            /\ Cardinality({j \in 0..(r - 1) : survives[j]}) < topK
            /\ \A j \in 0..(r - 1) : survives[j] => ~IoUAtLeast(box(j), box(r), th, norm)
    IN  {r \in 0..(numPreds - 1) : survives[r]}

\* The surviving ranks of segment sg of invocation i, from the ranked lists
\* and boxes in memory.
ParallelSurvivors(i, sg) ==
    LET a == arg[i]
    IN  nmsParallel(sg * a.numPredsPerClass, a.numClasses, a.numPredsPerClass, a.topK,
                    a.nmsThreshold, a.shareLocation, a.isNormalized,
                    [bbox |-> mem[bboxData(a)], indices |-> mem[indices(a)]])

\* C20: when the NMS stage has run, the entries it retained for every
\* (image, class) are exactly the candidates that survive in the
\* data-parallel formulation, in rank order, and the other slots are padding.
C20_ParallelEqualsGreedy ==
    \A i \in DOMAIN arg :
        pc[i] = "sortScoresPerImage" =>
            \A sg \in 0..(arg[i].N * arg[i].numClasses - 1) :
                \A P \in {ParallelSurvivors(i, sg)} :
                    \A t \in 1..arg[i].topK :
                        LET out == At(mem[postNMSIndices(arg[i])], sg * arg[i].topK + t - 1)
                        IN  IF t <= Cardinality(P)
                            THEN \E r \in P :
                                    /\ Cardinality({j \in P : j < r}) = t - 1
                                    /\ out = At(mem[indices(arg[i])],
                                                sg * arg[i].numPredsPerClass + r)
                            ELSE out = -1

\* Three candidates of one class: the second overlaps the first and the
\* third, the third does not overlap the first; the first and the third are
\* retained.
C20_Witness ==
    /\ pc[1] = "sortScoresPerImage"
    /\ arg[1].numPredsPerClass = 3 /\ arg[1].topK = 2
    /\ At(mem[indices(arg[1])], 2) # -1
    /\ Overlapping(1, At(mem[indices(arg[1])], 0), At(mem[indices(arg[1])], 1))
    /\ Overlapping(1, At(mem[indices(arg[1])], 1), At(mem[indices(arg[1])], 2))
    /\ ~Overlapping(1, At(mem[indices(arg[1])], 0), At(mem[indices(arg[1])], 2))
    /\ ParallelSurvivors(1, 0) = {0, 2}
    /\ At(mem[postNMSIndices(arg[1])], 0) = At(mem[indices(arg[1])], 0)
    /\ At(mem[postNMSIndices(arg[1])], 1) = At(mem[indices(arg[1])], 2)

---------------------------------------------------------------------------
(* C21 *)

\* The ranks of segment sg that greedy suppression leaves when it runs over
\* the whole ranked list, with no limit on the number retained.
Unsuppressed(i, sg) ==
    LET a == arg[i]
    IN  nmsParallel(sg * a.numPredsPerClass, a.numClasses, a.numPredsPerClass,
                    a.numPredsPerClass, a.nmsThreshold, a.shareLocation, a.isNormalized,
                    [bbox |-> mem[bboxData(a)], indices |-> mem[indices(a)]])

\* The rank, in its per-class list, of the entry in slot t of segment sg of
\* the NMS output; -1 for padding.
RetainedRank(i, sg, t) ==
    LET a   == arg[i]
        out == At(mem[postNMSIndices(a)], sg * a.topK + t - 1)
    IN  IF out = -1 THEN -1
        ELSE CHOOSE r \in 0..(a.numPredsPerClass - 1) :
                 At(mem[indices(a)], sg * a.numPredsPerClass + r) = out

\* C21: when the NMS stage has run, every (image, class) has min(topK, number
\* of unsuppressed candidates) retained entries, they are the highest-ranked
\* unsuppressed candidates in rank order (no unsuppressed candidate left out
\* ranks above a retained one), their scores do not increase, and the other
\* slots are padding.
C21_FirstTopKSurvivors ==
    \A i \in DOMAIN arg :
        pc[i] = "sortScoresPerImage" =>
            \A sg \in 0..(arg[i].N * arg[i].numClasses - 1) :
                \A U \in {Unsuppressed(i, sg)} :
                    \A R \in {[t \in 1..arg[i].topK |-> RetainedRank(i, sg, t)]} :
                        /\ Cardinality({t \in 1..arg[i].topK : R[t] # -1})
                              = Min(arg[i].topK, Cardinality(U))
                        /\ \A t \in 1..arg[i].topK :
                              R[t] # -1 =>
                                /\ R[t] \in U
                                /\ Cardinality({u \in U : u < R[t]}) = t - 1
                                /\ t > 1 =>
                                     At(mem[postNMSScores(arg[i])], sg * arg[i].topK + t - 2)
                                       >= At(mem[postNMSScores(arg[i])], sg * arg[i].topK + t - 1)

\* Three candidates of one class that do not suppress one another and topK
\* is 2: the two highest-ranked are retained and the third is left
\* unprocessed.
C21_Witness ==
    /\ pc[1] = "sortScoresPerImage"
    /\ arg[1].numPredsPerClass = 3 /\ arg[1].topK = 2
    /\ Unsuppressed(1, 0) = {0, 1, 2}
    /\ RetainedRank(1, 0, 1) = 0 /\ RetainedRank(1, 0, 2) = 1
    /\ At(mem[scores(arg[1])], 0) > At(mem[scores(arg[1])], 1)

---------------------------------------------------------------------------
(* C22 *)

\* The regions that hold the per-class sorted lists and are reused for the
\* per-image ranking.
ReusedRegions(a) == {scores(a), indices(a)}

Truncated(buf, n) == SubSeq(buf, 1, Min(n, Len(buf)))

\* What Gather produces from the per-image ranking alone: from the first
\* N * numClasses * topK entries of the two reused regions and the boxes.
GatherFromRanking(i) ==
    LET a == arg[i]
        n == a.N * a.numClasses * a.topK
    IN  gatherTopDetections(a.shareLocation, a.N, a.numPredsPerClass, a.numClasses,
                            a.topK, a.keepTopK, Truncated(mem[indices(a)], n),
                            Truncated(mem[scores(a)], n), mem[bboxData(a)], scoreShift(a))

---------------------------------------------------------------------------
(* C23 *)

Launched(i, stage) == \E k \in DOMAIN launched[i] : launched[i][k] = stage

Called(i, stage) == \E k \in DOMAIN invoked[i] : invoked[i][k][1] = stage

\* The buffers the kernels launched so far by invocation i have read.
ReadSoFar(i, stage) == IF Launched(i, stage) THEN Access(stage, arg[i]).reads ELSE {}

\* C23: with shareLocation true Permute-boxes is never called and NMS and
\* Gather, once launched, read the decoded-box buffer at the start of the
\* workspace, the permuted-box region being empty; with shareLocation false Permute-boxes has run before NMS, NMS
\* and Gather read the permuted-box buffer, which is another buffer than the
\* decoded one, and neither reads the decoded one; in both cases NMS and
\* Gather are handed the same box buffer.
C23_BoxBufferChoice ==
    \A i \in DOMAIN pc :
        /\ allClassNMSArgs(arg[i]).bboxData = gatherTopDetectionsArgs(arg[i]).bboxData
        /\ arg[i].shareLocation =>
              /\ ~Called(i, "permuteBoxes")
              /\ \A stage \in {"allClassNMS", "gatherTopDetections"} :
                    Launched(i, stage) =>
                        /\ arg[i].workspace \in ReadSoFar(i, stage)
                        /\ bboxPermuteSize(arg[i]) = 0
        /\ ~arg[i].shareLocation =>
              \A stage \in {"allClassNMS", "gatherTopDetections"} :
                  Launched(i, stage) =>
                      /\ Launched(i, "permuteBoxes")
                      /\ bboxPermute(arg[i]) # arg[i].workspace
                      /\ bboxPermute(arg[i]) \in ReadSoFar(i, stage)
                      /\ arg[i].workspace \notin ReadSoFar(i, stage)
                      /\ Access("permuteBoxes", arg[i]).writes = {bboxPermute(arg[i])}

\* A successful per-class call: Permute-boxes ran and both NMS and Gather
\* read the permuted boxes.
C23_Witness ==
    /\ status[1] = STATUS_SUCCESS /\ ~arg[1].shareLocation
    /\ Launched(1, "permuteBoxes")
    /\ bboxPermute(arg[1]) \in ReadSoFar(1, "allClassNMS")
    /\ bboxPermute(arg[1]) \in ReadSoFar(1, "gatherTopDetections")

---------------------------------------------------------------------------
(* Calls with either score type and scoreBits below, on and above the       *)
(* limits 1 and 10.                                                         *)

ScoreBitsValues == {0 - 1, 0, 1, 5, 10, 11}

InitBits ==
    \E sh \in Shapes(2), share \in BOOLEAN, dts \in SupportedTypes,
       sbits \in ScoreBitsValues :
        LET a == MkArg(1, sh @@ [shareLocation |-> share, backgroundLabelId |-> -1,
                                 topK |-> 1, keepTopK |-> 1,
                                 nmsThreshold |-> <<3, 4>>, codeType |-> "CORNER",
                                 DT_BBOX |-> kFLOAT, DT_SCORE |-> dts,
                                 scoreBits |-> sbits, mayFault |-> FALSE])
        IN  Entry(a, EntryMem(a, [k \in 1..NumBoxes(a) |-> NoBox],
                                 [k \in 1..numScores(a) |-> 1026]))

SpecBits == InitBits /\ [][Next]_vars

---------------------------------------------------------------------------
(* C24 *)

\* The shift the claim names for the parameters of invocation i.
ShiftByRule(i) ==
    IF arg[i].DT_SCORE = kHALF /\ arg[i].scoreBits \in 1..10 THEN 1 ELSE 0

\* C24: the shift handed to Sort-per-class, to NMS and to Gather is 1 when
\* the scores are 16-bit and scoreBits lies in 1..10 and 0 in every other
\* case, the same value for the three stages; once Sort-per-class has run the
\* ranked scores carry exactly that shift.
C24_ShiftCondition ==
    \A i \in DOMAIN pc :
        /\ Launched(i, "sortScoresPerClass") =>
              sortScoresPerClassArgs(arg[i]).scoreShift = ShiftByRule(i)
        /\ Launched(i, "allClassNMS") =>
              /\ allClassNMSArgs(arg[i]).scoreShift = ShiftByRule(i)
              /\ allClassNMSArgs(arg[i]).scoreShift = sortScoresPerClassArgs(arg[i]).scoreShift
        /\ Launched(i, "gatherTopDetections") =>
              /\ gatherTopDetectionsArgs(arg[i]).scoreShift = ShiftByRule(i)
              /\ gatherTopDetectionsArgs(arg[i]).scoreShift = allClassNMSArgs(arg[i]).scoreShift
        /\ pc[i] = "allClassNMS" =>
              \A e \in 0..(numScores(arg[i]) - 1) :
                  At(mem[indices(arg[i])], e) # -1 =>
                      At(mem[scores(arg[i])], e)
                          = At(mem[arg[i].confData], 0) + ShiftByRule(i) * HalfOne

\* 16-bit scores with scoreBits 10: the three stages were handed shift 1 and
\* the call succeeded.
C24_Witness ==
    /\ status[1] = STATUS_SUCCESS
    /\ arg[1].DT_SCORE = kHALF /\ arg[1].scoreBits = 10
    /\ gatherTopDetectionsArgs(arg[1]).scoreShift = 1
    /\ Detection(1, 1).score = 1026

---------------------------------------------------------------------------
(* The element counts.  locCount and numScores are products of two int     *)
(* parameters held in an int (lines 53 and 124).  A product that does not  *)
(* fit 32 bits is undefined behaviour: it may come out as any int, of      *)
(* which the model keeps the lowest, the highest, 0 and -1.                *)

INT_MAX == 2147483647
INT_MIN == 0 - INT_MAX - 1

\* For positive operands, without forming the product.
Overflows(x, y) == x > 0 /\ y > 0 /\ x > INT_MAX \div y

IntProduct(x, y) ==
    IF Overflows(x, y) THEN {INT_MIN, 0 - 1, 0, INT_MAX} ELSE {x * y}

CountBatches == {1, 2, 65536}
CountPreds   == {1, 3, 8192}

\* Calls whose C1 and C2 are the per-image element counts of their shape or
\* one element more, of small and of very large shapes.
InitCounts ==
    \E N \in CountBatches, np \in CountPreds, nc \in 1..MaxClasses, share \in BOOLEAN,
       more1 \in {0, 4}, more2 \in {0, 1} :
        LET a == MkArg(1, [N |-> N, numClasses |-> nc, numPredsPerClass |-> np,
                           shareLocation |-> share, backgroundLabelId |-> -1,
                           topK |-> 1, keepTopK |-> 1,
                           nmsThreshold |-> <<1, 2>>, codeType |-> "CORNER",
                           DT_BBOX |-> kFLOAT, DT_SCORE |-> kFLOAT,
                           scoreBits |-> 0, mayFault |-> FALSE])
        IN  /\ arg      = (1 :> [a EXCEPT !.C1 = @ + more1, !.C2 = @ + more2])
            /\ pc       = (1 :> "counts")
            /\ status   = (1 :> "none")
            /\ invoked  = (1 :> << >>)
            /\ launched = (1 :> << >>)
            /\ mem      = << >>
            /\ plan     = [locCount |-> 0, numScores |-> 0]
            /\ queue    = << >>
            /\ hostpc   = "none"

\* const int locCount = N * C1;  const int numScores = N * C2;
ComputeCounts ==
    /\ pc[1] = "counts"
    /\ \E lc \in IntProduct(arg[1].N, arg[1].C1), ns \in IntProduct(arg[1].N, arg[1].C2) :
          plan' = [locCount |-> lc, numScores |-> ns]
    /\ pc' = [pc EXCEPT ![1] = "counted"]
    /\ UNCHANGED <<arg, status, invoked, launched, mem, queue, hostpc>>

NextCounts == ComputeCounts

SpecCounts == InitCounts /\ [][NextCounts]_vars

---------------------------------------------------------------------------
(* C25 *)

\* x * y * z fits an int and equals v.
IsProduct(v, x, y, z) ==
    /\ ~Overflows(x, y)
    /\ ~Overflows(x * y, z)
    /\ v = x * y * z

\* C25: the location count handed to Decode is
\* N * numPredsPerClass * numLocClasses * 4 and the score count handed to
\* Permute-scores is N * numClasses * numPredsPerClass, both within the range
\* of an int, for every call.
C25_CountsMatchSizing ==
    pc[1] = "counted" =>
        /\ IsProduct(plan.locCount, arg[1].N,
                     arg[1].numPredsPerClass * numLocClasses(arg[1]), 4)
        /\ IsProduct(plan.numScores, arg[1].N, arg[1].numClasses, arg[1].numPredsPerClass)

---------------------------------------------------------------------------
(* Calls whose topK is below, at and far above numPredsPerClass.  The      *)
(* regions are 256-byte aligned, so 64 four-byte entries fill the space    *)
(* of a one-entry region and 65 do not fit it.                             *)

ReuseTopKs == {1, 2, 64, 65}

InitReuse ==
    \E sh \in Shapes(2), share \in BOOLEAN, dts \in SupportedTypes, topK \in ReuseTopKs :
        LET a == MkArg(1, sh @@ [shareLocation |-> share, backgroundLabelId |-> -1,
                                 topK |-> topK, keepTopK |-> 1,
                                 nmsThreshold |-> <<3, 4>>, codeType |-> "CORNER",
                                 DT_BBOX |-> kFLOAT, DT_SCORE |-> dts,
                                 scoreBits |-> 0, mayFault |-> FALSE])
        IN  Entry(a, EntryMem(a, [k \in 1..NumBoxes(a) |-> NoBox],
                                 [k \in 1..numScores(a) |-> 2]))

SpecReuse == InitReuse /\ [][Next]_vars

---------------------------------------------------------------------------
(* C26 *)

\* The address behind the last byte of the buffer at p, of `width` bytes an
\* entry.
BufferEnd(p, width) == p + Len(mem[p]) * width

\* C26: when Sort-per-image has run, the scores it wrote end at or before the
\* start of the sort-indices region and the indices it wrote end at or
\* before the start of the post-NMS scores region, which the stage reads.
C26_SortedRangeInsideRegions ==
    \A i \in DOMAIN pc :
        Launched(i, "sortScoresPerImage") =>
            /\ Len(mem[scores(arg[i])]) >= arg[i].N * arg[i].numClasses * arg[i].topK
            /\ Len(mem[indices(arg[i])]) >= arg[i].N * arg[i].numClasses * arg[i].topK
            /\ BufferEnd(scores(arg[i]), dataTypeSize(arg[i].DT_SCORE)) <= indices(arg[i])
            /\ BufferEnd(indices(arg[i]), 4) <= postNMSScores(arg[i])

---------------------------------------------------------------------------
(* detectionInference is straight-line code and every stage call returns:  *)
(* an invocation that has not ended moves on.  A step of Next is a stage   *)
(* call of one invocation followed by its status check, which takes the    *)
(* invocation to another position; Advance(i) is that change of position,  *)
(* enabled exactly while invocation i has a call left to make.             *)

Positions == {"decodeBBoxes", "permuteBoxes", "permuteScores", "sortScoresPerClass", "allClassNMS", "sortScoresPerImage", "gatherTopDetections", "done"}

Advance(i) ==
    /\ i \in DOMAIN pc /\ pc[i] # "done"
    /\ \E s \in Positions : s # pc[i] /\ pc' = [pc EXCEPT ![i] = s]

SpecFair == Init /\ [][Next]_vars /\ WF_pc(Advance(1)) /\ WF_pc(Advance(2))

---------------------------------------------------------------------------
(* C27 *)

TimesCalled(i, stage) ==
    Cardinality({k \in DOMAIN invoked[i] : invoked[i][k][1] = stage})

AllStages == {"decodeBBoxes", "permuteBoxes", "permuteScores", "sortScoresPerClass", "allClassNMS", "sortScoresPerImage", "gatherTopDetections"}

Terminal(i) == pc[i] = "done"

\* No stage is called twice; the status is set exactly when the invocation
\* has ended; a successful invocation has called every stage once, and
\* Permute-boxes once when shareLocation is false and not at all otherwise.
CalledOnce ==
    \A i \in DOMAIN pc :
        /\ \A stage \in AllStages : TimesCalled(i, stage) <= 1
        /\ Terminal(i) <=> status[i] # "none"
        /\ status[i] = STATUS_SUCCESS =>
              \A stage \in AllStages :
                  TimesCalled(i, stage) =
                      IF stage = "permuteBoxes" /\ arg[i].shareLocation THEN 0 ELSE 1

\* An invocation that has ended makes no further call and keeps its status.
EndedStaysEnded ==
    \A i \in DOMAIN pc :
        Terminal(i) =>
            /\ pc'[i] = pc[i]
            /\ status'[i] = status[i]
            /\ invoked'[i] = invoked[i]
            /\ launched'[i] = launched[i]

\* C27: every invocation ends, in one terminal status that never changes,
\* having called each stage at most once, every call taking it to another
\* position of the code (none is repeated); a successful one has called Decode,
\* Permute-scores, Sort-per-class, NMS, Sort-per-image and Gather exactly
\* once each and Permute-boxes exactly once when shareLocation is false and
\* never otherwise.
C27_TerminatesOnce ==
    /\ []CalledOnce
    /\ [][EndedStaysEnded]_vars
    /\ [][\E i \in DOMAIN pc : Advance(i)]_vars
    /\ <>(\A i \in DOMAIN pc : Terminal(i))

\* A per-class call has ended with success after seven stage calls.
C27_Witness ==
    /\ Terminal(1) /\ status[1] = STATUS_SUCCESS /\ ~arg[1].shareLocation
    /\ Len(invoked[1]) = 7
    /\ TimesCalled(1, "permuteBoxes") = 1

===========================================================================
